---- MODULE Spec2Model ----
(***************************************************************************)
(* State-machine model of scripts/scrape_map/clean_tiles.py: the           *)
(* TileCleaner (pixel transform, progress/statistics aggregates, the       *)
(* sequential loop, the ThreadPoolExecutor run, SIGINT handling and the    *)
(* summary).                                                               *)
(*                                                                         *)
(* Two specifications:                                                     *)
(*   Spec   one TileCleaner.run() from construction to exit, in both       *)
(*          modes, with interrupts arriving at any moment;                 *)
(*   SpecT  clean_tile applied repeatedly to one tile file drawn from a     *)
(*          bounded set of images (the pixel transform as a function).     *)
(***************************************************************************)
EXTENDS Integers, Sequences, FiniteSets, TLC

(***************************************************************************)
(* Bounds of the model.                                                    *)
(***************************************************************************)
\* largest number of .png files find_tiles discovers in Spec
NumTiles == 2
\* largest worker count (-j) tried
MaxParallel == 2
\* largest number of pixels of an image in SpecT
MaxPixels == 2
\* number of consecutive clean_tile calls on one file in SpecT
MaxRuns == 2
\* largest number of failed tiles at the summary in SpecS
MaxFailures == 12
\* largest number of regular files in the tree of SpecF
MaxFiles == 2
\* number of find_tiles calls on one tree in SpecF
MaxWalks == 2

\* longest component of the --color argument drawn freely in SpecC
MaxColorLen == 3
\* largest number of tiles of the configured zoom levels in SpecD
DlTiles == 2
\* largest value of --retries
MaxRetries == 2
\* largest number of images in the manifest
MaxImages == 2

\* runs of download_tiles.py on one output directory
DlRuns == 2

\* calls of fetch_file_page made by process_file_pages
MaxFetches == 2

\* entries of image_source.json when main starts, and gallery boxes of a page
MaxBoxes == 2

\* gallery pages main passes to extract_items
MaxPages == 2

\* (filename, url) pairs in the list deduplicate_images is given
MaxLinks == 3

\* calls of deduplicate_images, each after the first on the list returned
MaxDedups == 2

\* the largest zoom level get_tile_urls is called with
MaxZoom == 4

\* the largest n a UnionFind is made with
UfSize == 4

(***************************************************************************)
(* Pixels, colours and tile files.                                         *)
(* A tile file on disk is a record                                         *)
(*   mode  the PNG's channel layout as PIL reports it ("RGBA", "RGB", "L"),*)
(*         or "corrupt" for a file Image.open cannot decode;               *)
(*   px    its pixels in getdata() order, tuples of 4, 3 or 1 channels;    *)
(*   wr    what opening/writing the path does: "ok", "denied" (open for    *)
(*         writing raises, file untouched) or "nospace" (the file is       *)
(*         truncated by open(..., "w+b") and the write then raises).       *)
(***************************************************************************)
DEFAULT_BG_COLOR == <<221, 221, 221>>

White == <<255, 255, 255>>

\* the replacement pixel of clean_tile
Transparent == <<255, 255, 255, 0>>

BgColors == {DEFAULT_BG_COLOR, White}

PixelsRGBA == { <<221, 221, 221, 255>>, <<221, 221, 221, 0>>,
                <<255, 255, 255, 255>>, <<255, 255, 255, 0>>,
                <<0, 0, 0, 255>>, <<221, 221, 0, 255>> }

PixelsRGB == { <<221, 221, 221>>, <<255, 255, 255>>, <<221, 0, 221>> }

PixelsL == { <<221>>, <<255>>, <<0>> }

WriteKinds == {"ok", "denied", "nospace"}

SeqsUpTo(S, n) == UNION { [1..k -> S] : k \in 1..n }

CorruptFile(w) == [mode |-> "corrupt", px |-> <<>>, wr |-> w]

\* every tile file SpecT draws its input from
TileFiles ==
    { [mode |-> "RGBA", px |-> p, wr |-> w] : p \in SeqsUpTo(PixelsRGBA, MaxPixels), w \in WriteKinds }
    \cup { [mode |-> "RGB", px |-> p, wr |-> w] : p \in SeqsUpTo(PixelsRGB, MaxPixels), w \in WriteKinds }
    \cup { [mode |-> "L", px |-> p, wr |-> w] : p \in SeqsUpTo(PixelsL, MaxPixels), w \in WriteKinds }
    \cup { CorruptFile("ok") }

\* img.convert("RGBA") on the 8-bit modes: RGB gets alpha 255, L is
\* replicated to the three colour channels with alpha 255.
Convert(f) ==
    CASE f.mode = "RGBA" -> f.px
      [] f.mode = "RGB" -> [i \in DOMAIN f.px |-> <<f.px[i][1], f.px[i][2], f.px[i][3], 255>>]
      [] f.mode = "L" -> [i \in DOMAIN f.px |-> <<f.px[i][1], f.px[i][1], f.px[i][1], 255>>]

\* a variant that also compares alpha with 255 (opaque pixels only)
MatchesOpaqueOnly(item, bg) ==
    <<item[1], item[2], item[3]>> = bg /\ item[4] = 255

\* line 185: (item[0], item[1], item[2]) == self.bg_color
Matches(item, bg) ==
    <<item[1], item[2], item[3]>> = bg

\* a variant that blanks the pixel keeping its colour channels
ReplacementKeepColor(item) ==
    <<item[1], item[2], item[3], 0>>

\* line 186: the pixel appended for a matching item
Replacement(item) ==
    Transparent

\* lines 182-189: new_data
NewData(data, bg) ==
    [i \in DOMAIN data |-> IF Matches(data[i], bg) THEN Replacement(data[i]) ELSE data[i]]

\* lines 183-187: pixels_changed
PixelsChanged(data, bg) ==
    Cardinality({i \in DOMAIN data : Matches(data[i], bg)})

\* a variant that writes whenever the file decoded
ShouldSaveAlways(n) ==
    TRUE

\* line 191: if pixels_changed > 0
ShouldSave(n) ==
    n > 0

\* a save whose exception is swallowed
SaveSwallowsError(f, new) ==
    IF f.wr = "ok"
    THEN [file |-> [mode |-> "RGBA", px |-> new, wr |-> "ok"], error |-> ""]
    ELSE [file |-> f, error |-> ""]

\* lines 192-193: img.putdata(new_data); img.save(filepath, "PNG").
\* Returns the file left on disk and the exception raised ("" for none).
Save(f, new) ==
    CASE f.wr = "ok" -> [file |-> [mode |-> "RGBA", px |-> new, wr |-> "ok"], error |-> ""]
      [] f.wr = "denied" -> [file |-> f, error |-> "PermissionError"]
      [] f.wr = "nospace" -> [file |-> CorruptFile(f.wr), error |-> "OSError"]

\* lines 176-207 of clean_tile without the aggregates: the status logged,
\* the changed-pixel count reported, the error text, the file left on disk
\* and whether img.save was called on the path.
CleanTile(f, bg) ==
    IF f.mode = "corrupt"
    THEN [status |-> "failed", pixels |-> 0, error |-> "UnidentifiedImageError",
          file |-> f, wrote |-> FALSE]
    ELSE LET data == Convert(f)
             n == PixelsChanged(data, bg)
             s == Save(f, NewData(data, bg))
         IN  IF ShouldSave(n)
             THEN IF s.error = ""
                  THEN [status |-> "cleaned", pixels |-> n, error |-> "",
                        file |-> s.file, wrote |-> TRUE]
                  ELSE [status |-> "failed", pixels |-> 0, error |-> s.error,
                        file |-> s.file, wrote |-> TRUE]
             ELSE [status |-> "skipped", pixels |-> 0, error |-> "",
                   file |-> f, wrote |-> FALSE]

(***************************************************************************)
(* State of one run of the script.                                         *)
(***************************************************************************)
VARIABLES
    dirExists,         \* os.path.exists(self.input_dir)
    ntiles,            \* number of .png files under input_dir (len(tiles))
    files,             \* the tile files on disk, by discovery index
    files0,            \* the tile files as they were when the run started
    bg_color,          \* self.bg_color
    parallel,          \* self.parallel
    interrupted,       \* self.interrupted
    stats,             \* self.stats
    failures,          \* self.failures
    progress_counter,  \* self.progress_counter
    lock,              \* progress_lock, stats_lock, ColoredLogger._lock: "free", "main", "worker"
    mainpc,            \* position of the main thread in main()/run()
    cur,               \* index of the for loop the main thread is in
    handler,           \* _signal_handler frame on the main thread: "none", "warn", "quit"
    pc,                \* per tile: position of its clean_tile call / its future
    tmp,               \* per tile: the value read inside a += 1 (0 outside of it)
    ordinal,           \* per tile: `current` returned by _increment_progress (0: none)
    result,            \* per tile: branch clean_tile took (status, pixels_changed, error_msg)
    incs,              \* per tile: the stats its clean_tile call incremented, in order
    writes,            \* per tile: number of img.save calls on its path
    yielded,           \* futures as_completed has handed to the loop body
    summary,           \* <<>> or <<the counts _print_summary printed>>
    exit_status,       \* <<>> while running, <<code>> once the process ended
    tfile,             \* SpecT: the tile file on disk
    tbg,               \* SpecT: the target colour
    truns,             \* SpecT: one record per clean_tile call made so far
    fsDirs,            \* SpecF: the directories under input_dir (relative paths)
    fsFiles,           \* SpecF: the regular files, as [dir, name]
    fpc,               \* SpecF: position of find_tiles
    todo,              \* SpecF: directories os.walk has still to yield
    tiles,             \* SpecF: the list find_tiles appends to
    freturned,         \* SpecF: the lists returned by the calls made so far
    fwalks,            \* SpecF: the order in which each call met its paths
    color_str,         \* SpecC: the --color argument, a sequence of characters
    cpc,               \* SpecC: position of main() around parse_args
    args_color,        \* SpecC: <<>> or args.color as parse_color returned it
    cexit              \* SpecC: <<>> or <<status>> once argparse ended the process

runVars == <<dirExists, ntiles, files, files0, bg_color, parallel, interrupted, stats,
             failures, progress_counter, lock, mainpc, cur, handler, pc, tmp, ordinal,
             result, incs, writes, yielded, summary, exit_status>>

tVars == <<tfile, tbg, truns>>

fVars == <<fsDirs, fsFiles, fpc, todo, tiles, freturned, fwalks>>

cVars == <<color_str, cpc, args_color, cexit>>

\* the TileDownloader of download_tiles.py
VARIABLES
    d_ntiles,           \* len(all_tiles)
    d_force,            \* the force argument of run()
    d_parallel,         \* self.parallel
    d_retries,          \* self.retries
    d_outcomes,         \* what an HTTP attempt can come to in this run
    d_flat,             \* names of the files in output_dir (zoom_x_y.png)
    d_org,              \* paths of the files in its folders (zoom/x/y.png)
    d_interrupted,      \* self.interrupted
    d_stats,            \* self.stats
    d_failures,         \* self.failures
    d_progress_counter, \* self.progress_counter
    d_lock,             \* progress_lock, stats_lock, failures_lock, ColoredLogger._lock
    d_mainpc,           \* position of the main thread in run()
    d_cur,              \* index of the loop the main thread is in
    d_todo,             \* tiles_to_download
    d_handler,          \* _signal_handler frame on the main thread: "none", "warn", "quit"
    d_yielded,          \* futures as_completed has handed to the loop body
    d_summary,          \* <<>> or <<the counts _print_summary printed>>
    d_exit,             \* <<>> while running, <<code>> once the process ended
    d_moving,           \* names in flat_files organize_tiles has still to move
    d_pc,               \* per tile: position of the code working on it / its future
    d_tmp,              \* per tile: the value read inside a += 1 (0 outside of it)
    d_ordinal,          \* per tile: `current` returned by _increment_progress (0: none)
    d_attempt,          \* per tile: `attempt` of download_tile (0 before the loop)
    d_history,          \* per tile: what each requests.get call made for it came to
    d_last_error,       \* per tile: last_error of download_tile
    d_status,           \* per tile: "none", or the stat its branch counts
    d_incs,             \* per tile: the stats incremented for it, in order
    d_writes            \* per tile: number of times its flat file was opened for writing

dVars == <<d_ntiles, d_force, d_parallel, d_retries, d_outcomes, d_flat, d_org,
           d_interrupted, d_stats, d_failures, d_progress_counter, d_lock, d_mainpc,
           d_cur, d_todo, d_handler, d_yielded, d_summary, d_exit, d_moving, d_pc,
           d_tmp, d_ordinal, d_attempt, d_history, d_last_error, d_status, d_incs,
           d_writes>>

\* the ImageDownloader of download_images.py
VARIABLES
    i_nimages,          \* len(images)
    i_manifest,         \* the manifest file exists
    i_png,              \* per image: its name ends in .png, whatever the case
    i_have,             \* images whose file exists in output_dir
    i_force,            \* the force argument of run()
    i_retries,          \* self.retries
    i_outcomes,         \* what an HTTP attempt can come to in this run
    i_interrupted,      \* self.interrupted
    i_stats,            \* self.stats
    i_failures,         \* self.failures
    i_pc,               \* position of the (only) thread in run()/download_image
    i_cur,              \* i of the loop of run(), the image worked on
    i_attempt,          \* `attempt` of the download_image call under way
    i_last_error,       \* last_error of the download_image call under way
    i_history,          \* per image: what each requests.get call made for it came to
    i_incs,             \* per image: the stats incremented for it, in order
    i_writes,           \* per image: number of times its file was opened for writing
    i_summary,          \* <<>> or <<the counts _print_summary printed>>
    i_exit              \* <<>> while running, <<code>> once the process ended

iVars == <<i_nimages, i_manifest, i_png, i_have, i_force, i_retries, i_outcomes,
           i_interrupted, i_stats, i_failures, i_pc, i_cur, i_attempt, i_last_error,
           i_history, i_incs, i_writes, i_summary, i_exit>>

\* what the downloaders found when they started
VARIABLES
    d_run,              \* number of the run of download_tiles.py under way (0: none)
    d_had,              \* tiles that had a file, flat or organized, when the run started
    d_got,              \* tiles the previous run wrote after a 200 response
    i_had               \* images that had a file in output_dir when the run started

rVars == <<d_run, d_had, d_got, i_had>>

\* the ImageScraper of extract_images_wiki_gg.py fetching File: pages
VARIABLES
    w_md5,              \* per URL: hashlib.md5(url.encode()).hexdigest()
    w_force,            \* self.force_refresh
    w_cache,            \* per hash: <<>> or <<the file cache_dir/<hash>.html>>
    w_pc,               \* position in fetch_file_page ("none": no call under way)
    w_url,              \* the url argument of the call under way
    w_retry_count,      \* retry_count of the innermost fetch_file_page call
    w_cur,              \* what the call under way has done so far
    w_calls,            \* the calls process_file_pages made that have returned
    w_rate_limited,     \* self.stats["rate_limited"]
    w_warnings          \* self.warnings

wVars == <<w_md5, w_force, w_cache, w_pc, w_url, w_retry_count, w_cur, w_calls,
           w_rate_limited, w_warnings>>

\* extract_items of extract_images_from_html.py merging gallery pages
VARIABLES
    e_pc,               \* position in main and extract_items
    e_items,            \* main's items, the list extract_items appends to
    e_boxes,            \* gallery_boxes the loop of line 51 has not visited yet
    e_image_data,       \* image_data
    e_dict,             \* the keys of current_items_dict
    e_k,                \* the loop of line 62 visits image_data[e_k] next
    e_cur,              \* the arguments of the call under way
    e_calls             \* the extract_items calls that have returned

eVars == <<e_pc, e_items, e_boxes, e_image_data, e_dict, e_k, e_cur, e_calls>>

\* ImageScraper.deduplicate_images
VARIABLES
    g_pc,               \* position in deduplicate_images
    g_links,            \* file_page_links
    g_seen,             \* seen
    g_unique,           \* unique
    g_k,                \* the loop of line 349 visits file_page_links[g_k] next
    g_calls             \* the calls that have returned

gVars == <<g_pc, g_links, g_seen, g_unique, g_k, g_calls>>

\* TileDownloader.get_tile_urls
VARIABLES
    z_pc,               \* position in get_tile_urls
    z_zoom,             \* zoom
    z_dimensions,       \* dimensions
    z_y,                \* y of the outer loop
    z_x,                \* x of the inner loop
    z_tiles             \* tiles

zVars == <<z_pc, z_zoom, z_dimensions, z_y, z_x, z_tiles>>

\* the UnionFind of test.py
VARIABLES
    u_pc,               \* "idle", or "ready" once __init__ has run
    u_parent,           \* self.parent
    u_rank,             \* self.rank
    u_unions,           \* the pairs union was called with so far
    u_found             \* the last find call: <<>> or <<x, what it returned>>

uVars == <<u_pc, u_parent, u_rank, u_unions, u_found>>

\* the programs that are single functions
lVars == <<eVars, gVars, zVars, uVars>>

\* lVars without eVars, without gVars, without zVars and without uVars
afterE == <<gVars, zVars, uVars>>

afterG == <<eVars, zVars, uVars>>

afterZ == <<eVars, gVars, uVars>>

afterU == <<eVars, gVars, zVars>>

\* the state of the programs modelled below the two downloaders
yVars == <<rVars, wVars, lVars>>

\* yVars without rVars, and without wVars
afterR == <<wVars, lVars>>

afterW == <<rVars, lVars>>

\* everything but yVars
oldVars == <<runVars, tVars, fVars, cVars, dVars, iVars>>

xVars == <<cVars, dVars, iVars, yVars>>

vars == <<runVars, tVars, fVars, xVars>>

Tiles == 1..ntiles

StatNames == {"cleaned", "skipped", "failed"}

NoResult == [status |-> "none", pixels |-> 0, error |-> ""]

\* the tile files Spec draws the directory content from, one per outcome
\* under the default colour: a tile with a matching pixel, a tile with
\* none (white with alpha 0 is not the default grey), an undecodable file
RunFiles ==
    { [mode |-> "RGB", px |-> << <<221, 221, 221>>, <<0, 0, 0>> >>, wr |-> "ok"],
      [mode |-> "RGBA", px |-> << <<255, 255, 255, 0>>, <<0, 0, 0, 255>> >>, wr |-> "ok"],
      CorruptFile("ok") }

\* positions of a clean_tile call between the entry check and its return
Running ==
    {"check", "prog", "prog2", "work", "log", "logged", "stat", "stat2", "fail", "fail2"}

\* a tile that passed the entry check (line 170) of clean_tile
Attempted(t) == pc[t] \in (Running \ {"check"}) \cup {"done"}

Alive == exit_status = <<>>

\* the main thread executes its own code only outside the signal handler
MainRuns == Alive /\ handler = "none"

\* the thread running clean_tile: the main thread when parallel = 1
ThreadOf(t) == IF parallel > 1 THEN "worker" ELSE "main"

TileRuns(t) == Alive /\ (ThreadOf(t) = "main" => handler = "none")

\* progress_lock that never blocks (no mutual exclusion)
ProgressLockFreeAlways == TRUE

\* line 131: with self.progress_lock is entered only when the lock is free
ProgressLockFree == lock["progress"] = "free"

\* stats_lock that never blocks (no mutual exclusion)
StatsLockFreeAlways == TRUE

\* line 137: with self.stats_lock is entered only when the lock is free
StatsLockFree == lock["stats"] = "free"

\* lines 45-92: with cls._lock (a non-reentrant threading.Lock) is entered
\* only when the lock is free, whoever holds it
LogLockFree == lock["log"] = "free"

InitRun ==
    /\ dirExists \in BOOLEAN
    /\ ntiles \in 0..NumTiles
    /\ dirExists = FALSE => ntiles = 0
    /\ files \in [1..ntiles -> RunFiles]
    /\ files0 = files
    /\ bg_color = DEFAULT_BG_COLOR
    /\ parallel \in -1..MaxParallel
    /\ interrupted = FALSE
    /\ stats = [s \in StatNames |-> 0]
    /\ failures = <<>>
    /\ progress_counter = 0
    /\ lock = [l \in {"progress", "stats", "failures", "log"} |-> "free"]
    /\ mainpc = "args"
    /\ cur = 1
    /\ handler = "none"
    /\ pc = [t \in 1..ntiles |-> "new"]
    /\ tmp = [t \in 1..ntiles |-> 0]
    /\ ordinal = [t \in 1..ntiles |-> 0]
    /\ result = [t \in 1..ntiles |-> NoResult]
    /\ incs = [t \in 1..ntiles |-> <<>>]
    /\ writes = [t \in 1..ntiles |-> 0]
    /\ yielded = {}
    /\ summary = <<>>
    /\ exit_status = <<>>

InitTIdle ==
    /\ tfile = CorruptFile("ok")
    /\ tbg = DEFAULT_BG_COLOR
    /\ truns = <<>>

\* find_tiles is not under study: an empty tree, no call
InitFIdle ==
    /\ fsDirs = {<<>>}
    /\ fsFiles = {}
    /\ fpc = "idle"
    /\ todo = <<>>
    /\ tiles = <<>>
    /\ freturned = <<>>
    /\ fwalks = <<>>

\* --color is not under study: no argument, nothing parsed
InitCIdle ==
    /\ color_str = <<>>
    /\ cpc = "idle"
    /\ args_color = <<>>
    /\ cexit = <<>>

\* download_tiles.py is not under study: no tile, no run
InitDIdle ==
    /\ d_ntiles = 0
    /\ d_force = FALSE
    /\ d_parallel = 1
    /\ d_retries = 0
    /\ d_outcomes = {}
    /\ d_flat = {}
    /\ d_org = {}
    /\ d_interrupted = FALSE
    /\ d_stats = <<>>
    /\ d_failures = <<>>
    /\ d_progress_counter = 0
    /\ d_lock = <<>>
    /\ d_mainpc = "idle"
    /\ d_cur = 1
    /\ d_todo = <<>>
    /\ d_handler = "none"
    /\ d_yielded = {}
    /\ d_summary = <<>>
    /\ d_exit = <<>>
    /\ d_moving = {}
    /\ d_pc = <<>>
    /\ d_tmp = <<>>
    /\ d_ordinal = <<>>
    /\ d_attempt = <<>>
    /\ d_history = <<>>
    /\ d_last_error = <<>>
    /\ d_status = <<>>
    /\ d_incs = <<>>
    /\ d_writes = <<>>
    /\ d_run = 0
    /\ d_had = {}
    /\ d_got = {}

\* download_images.py is not under study: no manifest read, no run
InitIIdle ==
    /\ i_nimages = 0
    /\ i_manifest = FALSE
    /\ i_png = <<>>
    /\ i_have = {}
    /\ i_force = FALSE
    /\ i_retries = 0
    /\ i_outcomes = {}
    /\ i_interrupted = FALSE
    /\ i_stats = <<>>
    /\ i_failures = <<>>
    /\ i_pc = "idle"
    /\ i_cur = 1
    /\ i_attempt = 0
    /\ i_last_error = "None"
    /\ i_history = <<>>
    /\ i_incs = <<>>
    /\ i_writes = <<>>
    /\ i_summary = <<>>
    /\ i_exit = <<>>
    /\ i_had = {}

\* extract_images_wiki_gg.py is not under study: no scraper, no call
InitWIdle ==
    /\ w_md5 = <<>>
    /\ w_force = FALSE
    /\ w_cache = <<>>
    /\ w_pc = "idle"
    /\ w_url = ""
    /\ w_retry_count = 0
    /\ w_cur = <<>>
    /\ w_calls = <<>>
    /\ w_rate_limited = 0
    /\ w_warnings = <<>>

InitEIdle ==
    /\ e_pc = "idle"
    /\ e_items = <<>>
    /\ e_boxes = <<>>
    /\ e_image_data = <<>>
    /\ e_dict = {}
    /\ e_k = 0
    /\ e_cur = <<>>
    /\ e_calls = <<>>

InitGIdle ==
    /\ g_pc = "idle"
    /\ g_links = <<>>
    /\ g_seen = {}
    /\ g_unique = <<>>
    /\ g_k = 0
    /\ g_calls = <<>>

InitZIdle ==
    /\ z_pc = "idle"
    /\ z_zoom = 0
    /\ z_dimensions = 0
    /\ z_y = 0
    /\ z_x = 0
    /\ z_tiles = <<>>

InitUIdle ==
    /\ u_pc = "idle"
    /\ u_parent = <<>>
    /\ u_rank = <<>>
    /\ u_unions = {}
    /\ u_found = <<>>

InitLIdle == InitEIdle /\ InitGIdle /\ InitZIdle /\ InitUIdle

InitYIdle == InitWIdle /\ InitLIdle

InitXIdle == InitCIdle /\ InitDIdle /\ InitIIdle /\ InitYIdle

Init == InitRun /\ InitTIdle /\ InitFIdle /\ InitXIdle

(***************************************************************************)
(* main(): the check of the worker count and the construction of the       *)
(* TileCleaner (lines 361-374). Init is the state after parse_args; the    *)
(* fields of the TileCleaner already hold the values __init__ gives them.  *)
(***************************************************************************)
\* a check that lets 0 through
ValidParallelNonNegative == parallel >= 0

\* line 364: if args.parallel < 1 is not taken
ValidParallel == parallel >= 1

\* lines 364-372: a worker count below 1 goes to the error of line 365;
\* otherwise the TileCleaner is built and run() is entered
ValidateArgs ==
    /\ MainRuns
    /\ mainpc = "args"
    /\ mainpc' = IF ValidParallel THEN "validate" ELSE "argerror"
    /\ UNCHANGED <<dirExists, ntiles, files, files0, bg_color, parallel, interrupted, stats,
                   failures, progress_counter, lock, cur, handler, pc, tmp, ordinal,
                   result, incs, writes, yielded, summary, exit_status, tVars, fVars, xVars>>

\* line 119 has run: SIGINT is delivered to _signal_handler
HandlerInstalled == mainpc \notin {"args", "argerror", "argerrorP"}

(***************************************************************************)
(* run(): validation, discovery and the header (lines 216-233).            *)
(***************************************************************************)
\* run() goes on without looking at the directory or at find_tiles()
DiscoveryOkUnchecked == TRUE

\* lines 217 and 224: os.path.exists(self.input_dir), and tiles not empty
DiscoveryOk == dirExists /\ ntiles > 0

\* lines 217-226: a missing directory or an empty find_tiles() ends the run
Validate ==
    /\ MainRuns
    /\ mainpc = "validate"
    /\ mainpc' = IF DiscoveryOk THEN "header" ELSE "error"
    /\ UNCHANGED <<dirExists, ntiles, files, files0, bg_color, parallel, interrupted, stats,
                   failures, progress_counter, lock, cur, handler, pc, tmp, ordinal,
                   result, incs, writes, yielded, summary, exit_status, tVars, fVars, xVars>>

\* the test of the failed counter is >= instead of ==
ExitCodeNonNegative == IF stats["failed"] >= 0 THEN 0 ELSE 1

\* line 244: return 0 if self.stats["failed"] == 0 else 1
ExitCode == IF stats["failed"] = 0 THEN 0 ELSE 1

\* line 289: the number of failure records _print_summary lists
SummaryLimit == 10

\* a summary that lists every failure record
ShownFailuresAll(fl) == fl

\* line 289: self.failures[:10]
ShownFailures(fl) ==
    SubSeq(fl, 1, IF Len(fl) < SummaryLimit THEN Len(fl) ELSE SummaryLimit)

\* lines 292-293: the "... and N more" line, <<>> when it is not printed
MoreFailures(fl) ==
    IF Len(fl) > SummaryLimit THEN <<Len(fl) - SummaryLimit>> ELSE <<>>

\* what _print_summary prints (lines 283-293): the Cleaned and Skipped
\* lines, and only if stats["failed"] > 0 the Failed line, the records
\* listed and the line counting the rest. A line not printed is <<>>.
SummaryOf ==
    [cleaned |-> stats["cleaned"],
     skipped |-> stats["skipped"],
     failed |-> IF stats["failed"] > 0 THEN <<stats["failed"]>> ELSE <<>>,
     failures |-> IF stats["failed"] > 0 THEN ShownFailures(failures) ELSE <<>>,
     more |-> IF stats["failed"] > 0 THEN MoreFailures(failures) ELSE <<>>]

\* The main thread enters a ColoredLogger print (with cls._lock): the error
\* of line 365, the error of lines 218/225, the header of lines 231-233,
\* the summary of 277-294.
MainPrintAcquire ==
    /\ MainRuns
    /\ mainpc \in {"argerror", "error", "header", "summary"}
    /\ LogLockFree
    /\ lock' = [lock EXCEPT !["log"] = "main"]
    /\ mainpc' = CASE mainpc = "argerror" -> "argerrorP"
                   [] mainpc = "error" -> "errorP"
                   [] mainpc = "header" -> "headerP"
                   [] mainpc = "summary" -> "summaryP"
    /\ summary' = IF mainpc = "summary" THEN <<SummaryOf>> ELSE summary
    /\ UNCHANGED <<dirExists, ntiles, files, files0, bg_color, parallel, interrupted, stats,
                   failures, progress_counter, cur, handler, pc, tmp, ordinal,
                   result, incs, writes, yielded, exit_status, tVars, fVars, xVars>>

\* The main thread leaves the print; after an error and after the summary
\* main() or run() returns and the process exits with the value returned.
MainPrintRelease ==
    /\ MainRuns
    /\ mainpc \in {"argerrorP", "errorP", "headerP", "summaryP"}
    /\ lock' = [lock EXCEPT !["log"] = "free"]
    /\ mainpc' = CASE mainpc = "argerrorP" -> "done"
                   [] mainpc = "errorP" -> "done"
                   [] mainpc = "headerP" -> (IF parallel > 1 THEN "submit" ELSE "loop")
                   [] mainpc = "summaryP" -> "done"
    /\ exit_status' = CASE mainpc = "argerrorP" -> <<1>>
                        [] mainpc = "errorP" -> <<1>>
                        [] mainpc = "headerP" -> exit_status
                        [] mainpc = "summaryP" -> <<ExitCode>>
    /\ UNCHANGED <<dirExists, ntiles, files, files0, bg_color, parallel, interrupted, stats,
                   failures, progress_counter, cur, handler, pc, tmp, ordinal,
                   result, incs, writes, yielded, summary, tVars, fVars, xVars>>

(***************************************************************************)
(* _clean_sequential (lines 246-251).                                      *)
(***************************************************************************)
\* the loop leaves out the last tile
LoopDoneEarly == cur >= ntiles

\* line 248: for filepath in tiles is exhausted
LoopDone == cur > ntiles

\* the loop also ends at the first failed tile
LoopStopsOnFailure == interrupted \/ stats["failed"] > 0

\* line 249: if self.interrupted: break
LoopStops == interrupted

\* One iteration head: the previous clean_tile call has returned; the loop
\* ends, breaks, or calls clean_tile on the next tile.
SeqLoop ==
    /\ MainRuns
    /\ mainpc = "loop"
    /\ \A t \in Tiles : pc[t] \notin Running
    /\ IF LoopDone \/ LoopStops
       THEN /\ mainpc' = "summary"
            /\ UNCHANGED <<cur, pc>>
       ELSE /\ pc' = [pc EXCEPT ![cur] = "check"]
            /\ cur' = cur + 1
            /\ UNCHANGED mainpc
    /\ UNCHANGED <<dirExists, ntiles, files, files0, bg_color, parallel, interrupted, stats,
                   failures, progress_counter, lock, handler, tmp, ordinal,
                   result, incs, writes, yielded, summary, exit_status, tVars, fVars, xVars>>

(***************************************************************************)
(* clean_tile (lines 159-207), one action per step that touches shared     *)
(* state. pc[t]: check -> prog -> prog2 -> work -> log -> logged -> stat   *)
(* -> stat2 -> (fail -> fail2 ->) done, or check -> returned.              *)
(***************************************************************************)
\* the entry check is missing
EntryPassesAlways == TRUE

\* line 170: if self.interrupted: return False
EntryPasses == ~interrupted

EntryCheck(t) ==
    /\ TileRuns(t)
    /\ pc[t] = "check"
    /\ pc' = [pc EXCEPT ![t] = IF EntryPasses THEN "prog" ELSE "returned"]
    /\ UNCHANGED <<dirExists, ntiles, files, files0, bg_color, parallel, interrupted, stats,
                   failures, progress_counter, lock, mainpc, cur, handler, tmp, ordinal,
                   result, incs, writes, yielded, summary, exit_status, tVars, fVars, xVars>>

\* lines 131-132: with self.progress_lock: read of self.progress_counter
ProgressAcquire(t) ==
    /\ TileRuns(t)
    /\ pc[t] = "prog"
    /\ ProgressLockFree
    /\ lock' = [lock EXCEPT !["progress"] = ThreadOf(t)]
    /\ tmp' = [tmp EXCEPT ![t] = progress_counter]
    /\ pc' = [pc EXCEPT ![t] = "prog2"]
    /\ UNCHANGED <<dirExists, ntiles, files, files0, bg_color, parallel, interrupted, stats,
                   failures, progress_counter, mainpc, cur, handler, ordinal,
                   result, incs, writes, yielded, summary, exit_status, tVars, fVars, xVars>>

\* the value before the increment is returned
OrdinalReturnedOld(read) == read

\* line 133: return self.progress_counter, the value just stored
OrdinalReturned(read) == read + 1

\* the incremented value is not stored
NextProgressNotStored(read) == read

\* line 132: self.progress_counter += 1, the value stored
NextProgress(read) == read + 1

\* lines 132-133: the store of += 1, return self.progress_counter, release
ProgressRelease(t) ==
    /\ TileRuns(t)
    /\ pc[t] = "prog2"
    /\ progress_counter' = NextProgress(tmp[t])
    /\ ordinal' = [ordinal EXCEPT ![t] = OrdinalReturned(tmp[t])]
    /\ lock' = [lock EXCEPT !["progress"] = "free"]
    /\ tmp' = [tmp EXCEPT ![t] = 0]
    /\ pc' = [pc EXCEPT ![t] = "work"]
    /\ UNCHANGED <<dirExists, ntiles, files, files0, bg_color, parallel, interrupted, stats,
                   failures, mainpc, cur, handler,
                   result, incs, writes, yielded, summary, exit_status, tVars, fVars, xVars>>

\* every work item sees the last value of the loop variable
PathOfLast(t) == ntiles

\* lines 251 and 257: the filepath clean_tile is called with for tile t
PathOf(t) == t

\* lines 176-193 and the except of 202-203: decode, scan, and the save when
\* pixels_changed > 0. Only the file at the call's own path is read and
\* written.
Work(t) ==
    /\ TileRuns(t)
    /\ pc[t] = "work"
    /\ LET f == PathOf(t)
           r == CleanTile(files[f], bg_color)
       IN  /\ files' = [files EXCEPT ![f] = r.file]
           /\ writes' = [writes EXCEPT ![f] = @ + (IF r.wrote THEN 1 ELSE 0)]
           /\ result' = [result EXCEPT ![t] =
                            [status |-> r.status, pixels |-> r.pixels, error |-> r.error]]
    /\ pc' = [pc EXCEPT ![t] = "log"]
    /\ UNCHANGED <<dirExists, ntiles, files0, bg_color, parallel, interrupted, stats,
                   failures, progress_counter, lock, mainpc, cur, handler, tmp, ordinal,
                   incs, yielded, summary, exit_status, tVars, fVars, xVars>>

\* lines 194/198/204: ColoredLogger.progress enters `with cls._lock`
LogAcquire(t) ==
    /\ TileRuns(t)
    /\ pc[t] = "log"
    /\ LogLockFree
    /\ lock' = [lock EXCEPT !["log"] = ThreadOf(t)]
    /\ pc' = [pc EXCEPT ![t] = "logged"]
    /\ UNCHANGED <<dirExists, ntiles, files, files0, bg_color, parallel, interrupted, stats,
                   failures, progress_counter, mainpc, cur, handler, tmp, ordinal,
                   result, incs, writes, yielded, summary, exit_status, tVars, fVars, xVars>>

\* the progress line is printed and the logger lock released
LogRelease(t) ==
    /\ TileRuns(t)
    /\ pc[t] = "logged"
    /\ lock' = [lock EXCEPT !["log"] = "free"]
    /\ pc' = [pc EXCEPT ![t] = "stat"]
    /\ UNCHANGED <<dirExists, ntiles, files, files0, bg_color, parallel, interrupted, stats,
                   failures, progress_counter, mainpc, cur, handler, tmp, ordinal,
                   result, incs, writes, yielded, summary, exit_status, tVars, fVars, xVars>>

\* the except branch counts the tile as skipped
StatOfFailedAsSkipped(status) == IF status = "failed" THEN "skipped" ELSE status

\* lines 195/199/205: the counter _increment_stat is called with
StatOf(status) == status

\* lines 137-138: with self.stats_lock: read of self.stats[stat]
StatAcquire(t) ==
    /\ TileRuns(t)
    /\ pc[t] = "stat"
    /\ StatsLockFree
    /\ lock' = [lock EXCEPT !["stats"] = ThreadOf(t)]
    /\ tmp' = [tmp EXCEPT ![t] = stats[StatOf(result[t].status)]]
    /\ pc' = [pc EXCEPT ![t] = "stat2"]
    /\ UNCHANGED <<dirExists, ntiles, files, files0, bg_color, parallel, interrupted, stats,
                   failures, progress_counter, mainpc, cur, handler, ordinal,
                   result, incs, writes, yielded, summary, exit_status, tVars, fVars, xVars>>

\* line 138: the store of += 1, release; cleaned/skipped return here
StatRelease(t) ==
    /\ TileRuns(t)
    /\ pc[t] = "stat2"
    /\ stats' = [stats EXCEPT ![StatOf(result[t].status)] = tmp[t] + 1]
    /\ incs' = [incs EXCEPT ![t] = Append(@, StatOf(result[t].status))]
    /\ lock' = [lock EXCEPT !["stats"] = "free"]
    /\ tmp' = [tmp EXCEPT ![t] = 0]
    /\ pc' = [pc EXCEPT ![t] = IF result[t].status = "failed" THEN "fail" ELSE "done"]
    /\ UNCHANGED <<dirExists, ntiles, files, files0, bg_color, parallel, interrupted,
                   failures, progress_counter, mainpc, cur, handler, ordinal,
                   result, writes, yielded, summary, exit_status, tVars, fVars, xVars>>

\* failures_lock that never blocks (no mutual exclusion)
FailuresLockFreeAlways == TRUE

\* line 142: with self.failures_lock is entered only when the lock is free
FailuresLockFree == lock["failures"] = "free"

\* lines 206, 142-143: with self.failures_lock, and the first half of
\* list.append: the end of the list is located
FailuresAcquire(t) ==
    /\ TileRuns(t)
    /\ pc[t] = "fail"
    /\ FailuresLockFree
    /\ lock' = [lock EXCEPT !["failures"] = ThreadOf(t)]
    /\ tmp' = [tmp EXCEPT ![t] = Len(failures)]
    /\ pc' = [pc EXCEPT ![t] = "fail2"]
    /\ UNCHANGED <<dirExists, ntiles, files, files0, bg_color, parallel, interrupted, stats,
                   failures, progress_counter, mainpc, cur, handler, ordinal,
                   result, incs, writes, yielded, summary, exit_status, tVars, fVars, xVars>>

\* line 143: the record is stored behind the end located, the lock is
\* released and clean_tile returns (line 207)
AddFailure(t) ==
    /\ TileRuns(t)
    /\ pc[t] = "fail2"
    /\ failures' = Append(SubSeq(failures, 1, tmp[t]),
                          [name |-> t, error |-> result[t].error])
    /\ lock' = [lock EXCEPT !["failures"] = "free"]
    /\ tmp' = [tmp EXCEPT ![t] = 0]
    /\ pc' = [pc EXCEPT ![t] = "done"]
    /\ UNCHANGED <<dirExists, ntiles, files, files0, bg_color, parallel, interrupted, stats,
                   progress_counter, mainpc, cur, handler, ordinal,
                   result, incs, writes, yielded, summary, exit_status, tVars, fVars, xVars>>

(***************************************************************************)
(* _clean_parallel (lines 253-275) and the ThreadPoolExecutor it drives.   *)
(* pc[t] doubles as the future's state: new (not submitted), queued        *)
(* (PENDING, in the work queue), cancelled (CANCELLED, still in the        *)
(* queue), dropped (a worker discarded the cancelled item), the Running    *)
(* positions (RUNNING), done/returned (FINISHED).                          *)
(* The except KeyboardInterrupt branch (272-275) is unreachable: line 119  *)
(* replaces the default SIGINT handler, so no KeyboardInterrupt is raised. *)
(***************************************************************************)
\* lines 256-259: executor.submit for the next tile, in discovery order
Submit ==
    /\ MainRuns
    /\ mainpc = "submit"
    /\ pc' = [pc EXCEPT ![cur] = "queued"]
    /\ cur' = IF cur = ntiles THEN 1 ELSE cur + 1
    /\ mainpc' = IF cur = ntiles THEN "wait" ELSE "submit"
    /\ UNCHANGED <<dirExists, ntiles, files, files0, bg_color, parallel, interrupted, stats,
                   failures, progress_counter, lock, handler, tmp, ordinal,
                   result, incs, writes, yielded, summary, exit_status, tVars, fVars, xVars>>

\* tiles whose work item is in the executor's queue
InQueue == {t \in Tiles : pc[t] \in {"queued", "cancelled"}}

\* tiles a worker thread is executing clean_tile for
Busy == {t \in Tiles : pc[t] \in Running}

\* a pool that starts a thread per work item
HasIdleWorkerUnbounded == TRUE

\* line 255: max_workers=self.parallel threads, each runs one item at a time
HasIdleWorker == Cardinality(Busy) < parallel

\* A worker thread takes the head of the FIFO queue: a cancelled item is
\* discarded (set_running_or_notify_cancel), a pending one starts clean_tile.
WorkerTake ==
    /\ Alive
    /\ parallel > 1
    /\ InQueue # {}
    /\ HasIdleWorker
    /\ LET h == CHOOSE t \in InQueue : \A u \in InQueue : t <= u
       IN  pc' = [pc EXCEPT ![h] = IF pc[h] = "queued" THEN "check" ELSE "dropped"]
    /\ UNCHANGED <<dirExists, ntiles, files, files0, bg_color, parallel, interrupted, stats,
                   failures, progress_counter, lock, mainpc, cur, handler, tmp, ordinal,
                   result, incs, writes, yielded, summary, exit_status, tVars, fVars, xVars>>

\* futures as_completed can yield next: finished and not yet yielded
Completed == {t \in Tiles : pc[t] \in {"done", "returned"} /\ t \notin yielded}

\* lines 262-268: as_completed yields a finished future; the loop body
\* starts cancelling when the flag is set, else takes the result. The loop
\* ends when every future was yielded.
AsCompleted ==
    /\ MainRuns
    /\ mainpc = "wait"
    /\ IF yielded = Tiles
       THEN /\ mainpc' = "shutdown"
            /\ UNCHANGED <<yielded, cur>>
       ELSE \E t \in Completed :
               IF interrupted
               THEN /\ mainpc' = "cancel"
                    /\ cur' = 1
                    /\ UNCHANGED yielded
               ELSE /\ yielded' = yielded \cup {t}
                    /\ UNCHANGED <<mainpc, cur>>
    /\ UNCHANGED <<dirExists, ntiles, files, files0, bg_color, parallel, interrupted, stats,
                   failures, progress_counter, lock, handler, pc, tmp, ordinal,
                   result, incs, writes, summary, exit_status, tVars, fVars, xVars>>

\* lines 264-266: for f in futures: f.cancel(); break. cancel() changes
\* only a PENDING future.
CancelStep ==
    /\ MainRuns
    /\ mainpc = "cancel"
    /\ IF cur > ntiles
       THEN /\ mainpc' = "shutdown"
            /\ UNCHANGED <<pc, cur>>
       ELSE /\ pc' = [pc EXCEPT ![cur] = IF @ = "queued" THEN "cancelled" ELSE @]
            /\ cur' = cur + 1
            /\ UNCHANGED mainpc
    /\ UNCHANGED <<dirExists, ntiles, files, files0, bg_color, parallel, interrupted, stats,
                   failures, progress_counter, lock, handler, tmp, ordinal,
                   result, incs, writes, yielded, summary, exit_status, tVars, fVars, xVars>>

\* the with block exits without waiting for the workers
PoolDrainedNoWait == TRUE

\* line 255, __exit__: executor.shutdown(wait=True) joins the worker
\* threads, which first empty the queue and finish their running items
PoolDrained == InQueue = {} /\ Busy = {}

Shutdown ==
    /\ MainRuns
    /\ mainpc = "shutdown"
    /\ PoolDrained
    /\ mainpc' = "summary"
    /\ UNCHANGED <<dirExists, ntiles, files, files0, bg_color, parallel, interrupted, stats,
                   failures, progress_counter, lock, cur, handler, pc, tmp, ordinal,
                   result, incs, writes, yielded, summary, exit_status, tVars, fVars, xVars>>

(***************************************************************************)
(* SIGINT (lines 119, 121-127). The handler runs on the main thread,       *)
(* between two of its bytecodes or while it waits for a lock or a future;  *)
(* a signal arriving while a handler frame waits for the logger lock runs  *)
(* a nested frame, which finds the flag set.                               *)
(***************************************************************************)
\* SIGINT before line 119: Python's default handler raises
\* KeyboardInterrupt in the main thread, a `with cls._lock` under way is
\* left, and lines 380-384 end the process with status 130
KeyboardInterrupt ==
    /\ Alive
    /\ ~HandlerInstalled
    /\ lock' = [lock EXCEPT !["log"] = "free"]
    /\ exit_status' = <<130>>
    /\ mainpc' = "exited"
    /\ UNCHANGED <<dirExists, ntiles, files, files0, bg_color, parallel, interrupted, stats,
                   failures, progress_counter, cur, handler, pc, tmp, ordinal,
                   result, incs, writes, yielded, summary, tVars, fVars, xVars>>

\* lines 123-126 up to the ColoredLogger call: the flag test and the store
Interrupt ==
    /\ Alive
    /\ HandlerInstalled
    /\ handler' = IF interrupted THEN "quit" ELSE "warn"
    /\ interrupted' = TRUE
    /\ UNCHANGED <<dirExists, ntiles, files, files0, bg_color, parallel, stats,
                   failures, progress_counter, lock, mainpc, cur, pc, tmp, ordinal,
                   result, incs, writes, yielded, summary, exit_status, tVars, fVars, xVars>>

\* lines 124-125 and 127: ColoredLogger.error/warning take cls._lock, then
\* the handler returns ("warn") or calls os._exit(1) ("quit")
HandlerPrint ==
    /\ Alive
    /\ handler # "none"
    /\ LogLockFree
    /\ handler' = "none"
    /\ exit_status' = IF handler = "quit" THEN <<1>> ELSE exit_status
    /\ mainpc' = IF handler = "quit" THEN "exited" ELSE mainpc
    /\ UNCHANGED <<dirExists, ntiles, files, files0, bg_color, parallel, interrupted, stats,
                   failures, progress_counter, lock, cur, pc, tmp, ordinal,
                   result, incs, writes, yielded, summary, tVars, fVars, xVars>>

TileStep(t) ==
    \/ EntryCheck(t)
    \/ ProgressAcquire(t)
    \/ ProgressRelease(t)
    \/ Work(t)
    \/ LogAcquire(t)
    \/ LogRelease(t)
    \/ StatAcquire(t)
    \/ StatRelease(t)
    \/ FailuresAcquire(t)
    \/ AddFailure(t)

MainStep ==
    \/ ValidateArgs
    \/ Validate
    \/ MainPrintAcquire
    \/ MainPrintRelease
    \/ SeqLoop
    \/ Submit
    \/ AsCompleted
    \/ CancelStep
    \/ Shutdown

\* every step of the program itself (all but the arrival of a signal)
ProgramStep ==
    \/ MainStep
    \/ WorkerTake
    \/ HandlerPrint
    \/ \E t \in Tiles : TileStep(t)

Next ==
    \/ ValidateArgs
    \/ Validate
    \/ MainPrintAcquire
    \/ MainPrintRelease
    \/ SeqLoop
    \/ Submit
    \/ WorkerTake
    \/ AsCompleted
    \/ CancelStep
    \/ Shutdown
    \/ KeyboardInterrupt
    \/ Interrupt
    \/ HandlerPrint
    \/ \E t \in Tiles : EntryCheck(t)
    \/ \E t \in Tiles : ProgressAcquire(t)
    \/ \E t \in Tiles : ProgressRelease(t)
    \/ \E t \in Tiles : Work(t)
    \/ \E t \in Tiles : LogAcquire(t)
    \/ \E t \in Tiles : LogRelease(t)
    \/ \E t \in Tiles : StatAcquire(t)
    \/ \E t \in Tiles : StatRelease(t)
    \/ \E t \in Tiles : FailuresAcquire(t)
    \/ \E t \in Tiles : AddFailure(t)

Spec == Init /\ [][Next]_vars

\* The scheduler always runs some thread that can run: a program step that
\* stays possible is eventually taken. Signals are under no obligation.
FairSpec == Spec /\ WF_vars(ProgramStep)

(***************************************************************************)
(* SpecP: the same program run on a directory with more tiles than the     *)
(* largest worker count, so that the pool is saturated and work waits in   *)
(* its queue. All tiles are undecodable files (the longest path through    *)
(* clean_tile).                                                            *)
(***************************************************************************)
\* one tile more than Spec discovers at most
PoolTiles == NumTiles + 1

InitP ==
    /\ InitTIdle
    /\ InitFIdle
    /\ InitXIdle
    /\ dirExists = TRUE
    /\ ntiles = PoolTiles
    /\ files = [t \in 1..ntiles |-> CorruptFile("ok")]
    /\ files0 = files
    /\ bg_color = DEFAULT_BG_COLOR
    /\ parallel \in -1..MaxParallel
    /\ interrupted = FALSE
    /\ stats = [s \in StatNames |-> 0]
    /\ failures = <<>>
    /\ progress_counter = 0
    /\ lock = [l \in {"progress", "stats", "failures", "log"} |-> "free"]
    /\ mainpc = "args"
    /\ cur = 1
    /\ handler = "none"
    /\ pc = [t \in 1..ntiles |-> "new"]
    /\ tmp = [t \in 1..ntiles |-> 0]
    /\ ordinal = [t \in 1..ntiles |-> 0]
    /\ result = [t \in 1..ntiles |-> NoResult]
    /\ incs = [t \in 1..ntiles |-> <<>>]
    /\ writes = [t \in 1..ntiles |-> 0]
    /\ yielded = {}
    /\ summary = <<>>
    /\ exit_status = <<>>

SpecP == InitP /\ [][Next]_vars

(***************************************************************************)
(* SpecT: clean_tile called MaxRuns times in a row on one tile file, with  *)
(* one target colour; no run() around it.                                  *)
(***************************************************************************)
InitRunIdle ==
    /\ dirExists = FALSE
    /\ ntiles = 0
    /\ files = <<>>
    /\ files0 = <<>>
    /\ bg_color = DEFAULT_BG_COLOR
    /\ parallel = 1
    /\ interrupted = FALSE
    /\ stats = [s \in StatNames |-> 0]
    /\ failures = <<>>
    /\ progress_counter = 0
    /\ lock = [l \in {"progress", "stats", "failures", "log"} |-> "free"]
    /\ mainpc = "idle"
    /\ cur = 1
    /\ handler = "none"
    /\ pc = <<>>
    /\ tmp = <<>>
    /\ ordinal = <<>>
    /\ result = <<>>
    /\ incs = <<>>
    /\ writes = <<>>
    /\ yielded = {}
    /\ summary = <<>>
    /\ exit_status = <<>>

InitT ==
    /\ InitRunIdle
    /\ InitFIdle
    /\ InitXIdle
    /\ tfile \in TileFiles
    /\ tbg \in BgColors
    /\ truns = <<>>

\* one clean_tile call on the file (lines 176-207)
TClean ==
    /\ Len(truns) < MaxRuns
    /\ LET r == CleanTile(tfile, tbg)
       IN  /\ truns' = Append(truns, [before |-> tfile, status |-> r.status,
                                      pixels |-> r.pixels, error |-> r.error,
                                      wrote |-> r.wrote, after |-> r.file])
           /\ tfile' = r.file
    /\ UNCHANGED <<tbg, runVars, fVars, xVars>>

NextT == TClean

SpecT == InitT /\ [][NextT]_vars

(***************************************************************************)
(* SpecS: _print_summary (lines 277-294) at the end of a sequential pass   *)
(* over up to one cleaned tile, one skipped tile and MaxFailures failed    *)
(* tiles, and the return of run().                                         *)
(***************************************************************************)
\* the tile file of RunFiles that clean_tile handles with outcome s
FileWithOutcome(s) ==
    CHOOSE f \in RunFiles : CleanTile(f, DEFAULT_BG_COLOR).status = s

\* the outcome of tile t when c cleaned tiles come first, then s skipped
OutcomeAt(t, c, s) ==
    IF t <= c THEN "cleaned" ELSE IF t <= c + s THEN "skipped" ELSE "failed"

\* the state in which _clean_sequential has returned (line 239)
InitS ==
    /\ InitTIdle
    /\ InitFIdle
    /\ InitXIdle
    /\ \E c \in 0..1, s \in 0..1, F \in 0..MaxFailures :
          LET n == c + s + F
              f0 == [t \in 1..n |-> FileWithOutcome(OutcomeAt(t, c, s))]
              r == [t \in 1..n |-> CleanTile(f0[t], DEFAULT_BG_COLOR)]
          IN  /\ n > 0
              /\ dirExists = TRUE
              /\ ntiles = n
              /\ files0 = f0
              /\ files = [t \in 1..n |-> r[t].file]
              /\ stats = [cleaned |-> c, skipped |-> s, failed |-> F]
              /\ failures = [i \in 1..F |-> [name |-> c + s + i,
                                             error |-> r[c + s + i].error]]
              /\ progress_counter = n
              /\ cur = n + 1
              /\ pc = [t \in 1..n |-> "done"]
              /\ tmp = [t \in 1..n |-> 0]
              /\ ordinal = [t \in 1..n |-> t]
              /\ result = [t \in 1..n |-> [status |-> r[t].status,
                                            pixels |-> r[t].pixels,
                                            error |-> r[t].error]]
              /\ incs = [t \in 1..n |-> <<r[t].status>>]
              /\ writes = [t \in 1..n |-> IF r[t].wrote THEN 1 ELSE 0]
    /\ bg_color = DEFAULT_BG_COLOR
    /\ parallel = 1
    /\ interrupted = FALSE
    /\ lock = [l \in {"progress", "stats", "failures", "log"} |-> "free"]
    /\ mainpc = "summary"
    /\ handler = "none"
    /\ yielded = {}
    /\ summary = <<>>
    /\ exit_status = <<>>

NextS ==
    \/ MainPrintAcquire
    \/ MainPrintRelease

SpecS == InitS /\ [][NextS]_vars

(***************************************************************************)
(* SpecF: find_tiles (lines 145-157) called MaxWalks times on a directory  *)
(* tree that does not change. A string is the sequence of its code points  *)
(* ("." 46, "/" 47, "a" 97, "d" 100, ...); a directory is the sequence of  *)
(* the names from input_dir down to it.                                    *)
(***************************************************************************)
\* self.input_dir: "o"
InputDir == <<111>>

\* line 155: the suffix ".png"
PngSuffix == <<46, 112, 110, 103>>

\* file names the tree is drawn from:
\* "a.png", "b.png", ".png", "a.PNG", "png", "a.txt"
FileNames == { <<97, 46, 112, 110, 103>>, <<98, 46, 112, 110, 103>>,
               <<46, 112, 110, 103>>, <<97, 46, 80, 78, 71>>,
               <<112, 110, 103>>, <<97, 46, 116, 120, 116>> }

\* directories the tree is drawn from: d, d/d and a directory named a.png
DirCandidates == { << <<100>> >>, << <<100>>, <<100>> >>,
                   << <<97, 46, 112, 110, 103>> >> }

\* the directory holding directory d
Parent(d) == SubSeq(d, 1, Len(d) - 1)

\* the trees: input_dir itself, a parent-closed set of directories
DirSets == { D \cup {<<>>} : D \in { E \in SUBSET DirCandidates :
                                      \A d \in E : Parent(d) \in E \cup {<<>>} } }

\* os.path.join(a, b) for a relative b and an a without trailing separator
PathJoin(a, b) == a \o <<47>> \o b

\* the root os.walk yields for directory d: input_dir joined with each name
RECURSIVE DirPath(_)
DirPath(d) ==
    IF d = <<>> THEN InputDir ELSE PathJoin(DirPath(Parent(d)), d[Len(d)])

\* a variant of the test that looks for "png" anywhere at the end
EndsWithNoDot(name, suffix) ==
    /\ Len(name) >= Len(suffix) - 1
    /\ SubSeq(name, Len(name) - Len(suffix) + 2, Len(name)) = Tail(suffix)

\* str.endswith: the last len(suffix) characters are the suffix
EndsWith(name, suffix) ==
    /\ Len(name) >= Len(suffix)
    /\ SubSeq(name, Len(name) - Len(suffix) + 1, Len(name)) = suffix

\* str.__lt__: comparison by code point at the first difference, a proper
\* prefix first
StrLess(a, b) ==
    \E k \in 1..(Len(a) + 1) :
        /\ k <= Len(b)
        /\ \A i \in 1..(k - 1) : a[i] = b[i]
        /\ k = Len(a) + 1 \/ a[k] < b[k]

\* insertion of x into the sorted list q, after the elements not greater
RECURSIVE Insert(_, _)
Insert(q, x) ==
    IF q = <<>> THEN <<x>>
    ELSE IF StrLess(x, Head(q)) THEN <<x>> \o q
    ELSE <<Head(q)>> \o Insert(Tail(q), x)

RECURSIVE InsertionSort(_)
InsertionSort(q) ==
    IF q = <<>> THEN <<>> ELSE Insert(InsertionSort(SubSeq(q, 1, Len(q) - 1)), q[Len(q)])

\* the list is returned in the order of the walk
Unsorted(q) == q

\* line 157: sorted(tiles), a stable ascending sort of strings
Sorted(q) == InsertionSort(q)

\* the orders in which a directory listing can come
Orders(S) == { q \in [1..Cardinality(S) -> S] : \A i, j \in DOMAIN q : i # j => q[i] # q[j] }

\* os.walk's `files` and `dirs` for directory d
FilesIn(d) == { f \in fsFiles : f.dir = d }
SubDirs(d) == { e \in fsDirs : e # <<>> /\ Parent(e) = d }

\* lines 154-156 for one directory: the joined paths of the names that
\* pass the test, in listing order
RECURSIVE Matching(_, _)
Matching(d, listing) ==
    IF listing = <<>> THEN <<>>
    ELSE (IF EndsWith(Head(listing).name, PngSuffix)
          THEN <<PathJoin(DirPath(d), Head(listing).name)>> ELSE <<>>)
         \o Matching(d, Tail(listing))

InitF ==
    /\ InitRunIdle
    /\ InitTIdle
    /\ InitXIdle
    /\ fsDirs \in DirSets
    /\ fsFiles \in { F \in SUBSET [dir : fsDirs, name : FileNames] :
                       /\ Cardinality(F) <= MaxFiles
                       /\ \A f \in F : Append(f.dir, f.name) \notin fsDirs }
    /\ fpc = "walk"
    /\ todo = << <<>> >>
    /\ tiles = <<>>
    /\ freturned = <<>>
    /\ fwalks = <<>>

\* line 153, one iteration: os.walk yields the next directory (top-down,
\* its sub-directories next, in listing order) and lines 154-156 run on
\* its files
WalkDir ==
    /\ fpc = "walk"
    /\ todo # <<>>
    /\ LET d == Head(todo)
       IN  \E fl \in Orders(FilesIn(d)), dl \in Orders(SubDirs(d)) :
               /\ tiles' = tiles \o Matching(d, fl)
               /\ todo' = dl \o Tail(todo)
    /\ UNCHANGED <<fsDirs, fsFiles, fpc, freturned, fwalks, runVars, tVars, xVars>>

\* line 157: the walk is exhausted, find_tiles returns sorted(tiles)
ReturnSorted ==
    /\ fpc = "walk"
    /\ todo = <<>>
    /\ freturned' = Append(freturned, Sorted(tiles))
    /\ fwalks' = Append(fwalks, tiles)
    /\ fpc' = "returned"
    /\ UNCHANGED <<fsDirs, fsFiles, todo, tiles, runVars, tVars, xVars>>

\* find_tiles is called again on the same tree (line 152: tiles = [])
CallAgain ==
    /\ fpc = "returned"
    /\ Len(freturned) < MaxWalks
    /\ fpc' = "walk"
    /\ todo' = << <<>> >>
    /\ tiles' = <<>>
    /\ UNCHANGED <<fsDirs, fsFiles, freturned, fwalks, runVars, tVars, xVars>>

NextF ==
    \/ WalkDir
    \/ ReturnSorted
    \/ CallAgain

SpecF == InitF /\ [][NextF]_vars

(***************************************************************************)
(* parse_color and the --color argument of main(): SpecC.                  *)
(***************************************************************************)
\* the characters the arguments are made of: digits that reach 0, 255 and
\* 256, both signs, a blank, an underscore, a letter and the separator
ColorChars == {"0", "2", "5", "6", "-", "+", " ", "_", "x", ","}

DigitValue ==
    [c \in {"0", "1", "2", "3", "4", "5", "6", "7", "8", "9"} |->
        CASE c = "0" -> 0 [] c = "1" -> 1 [] c = "2" -> 2 [] c = "3" -> 3 [] c = "4" -> 4
          [] c = "5" -> 5 [] c = "6" -> 6 [] c = "7" -> 7 [] c = "8" -> 8 [] c = "9" -> 9]

IsDigit(c) == c \in DOMAIN DigitValue

RECURSIVE Join(_)
Join(ps) ==
    IF Len(ps) = 1 THEN ps[1] ELSE ps[1] \o <<",">> \o Join(Tail(ps))

\* the pieces the arguments of SpecC are made of: any text of up to MaxColorLen
\* characters (commas included), beside the ends of the range
FreePieces == SeqsUpTo(ColorChars, MaxColorLen) \cup {<<>>}

EdgePieces == {<<"0">>, <<"2", "5", "5">>}

\* color_str.split(",")
RECURSIVE SplitFrom(_, _, _)
SplitFrom(s, i, part) ==
    IF i > Len(s) THEN <<part>>
    ELSE IF s[i] = "," THEN <<part>> \o SplitFrom(s, i + 1, <<>>)
    ELSE SplitFrom(s, i + 1, Append(part, s[i]))

Split(s) == SplitFrom(s, 1, <<>>)

\* int(): surrounding whitespace is skipped
RECURSIVE Strip(_)
Strip(s) ==
    IF s = <<>> THEN s
    ELSE IF s[1] = " " THEN Strip(Tail(s))
    ELSE IF s[Len(s)] = " " THEN Strip(SubSeq(s, 1, Len(s) - 1))
    ELSE s

\* int(): the digits after the sign, left to right; single underscores may
\* separate digits.  <<>> is ValueError, <<v>> the value
RECURSIVE ScanDigits(_, _, _, _)
ScanDigits(s, i, acc, afterDigit) ==
    IF i > Len(s) THEN (IF afterDigit THEN <<acc>> ELSE <<>>)
    ELSE IF IsDigit(s[i]) THEN ScanDigits(s, i + 1, acc * 10 + DigitValue[s[i]], TRUE)
    ELSE IF s[i] = "_" /\ afterDigit THEN ScanDigits(s, i + 1, acc, FALSE)
    ELSE <<>>

\* int(parts[k]) in base 10
int(s) ==
    LET t == Strip(s)
        signed == t # <<>> /\ t[1] \in {"-", "+"}
        v == ScanDigits(IF signed THEN Tail(t) ELSE t, 1, 0, FALSE)
    IN  IF v = <<>> THEN <<>>
        ELSE IF t[1] = "-" THEN <<0 - v[1]>>
        ELSE v

InRangeNoLowerBound(c) == c <= 255

\* 0 <= c <= 255
InRange(c) == 0 <= c /\ c <= 255

\* parse_color: error is <<>> and color the tuple returned, or error holds
\* the ValueError turned into ArgumentTypeError
parse_color(s) ==
    LET parts == Split(s)
    IN  IF Len(parts) # 3 THEN [error |-> <<"Expected 3 components">>, color |-> <<>>]
        ELSE LET r == int(parts[1])
                 g == int(parts[2])
                 b == int(parts[3])
             IN  IF r = <<>> \/ g = <<>> \/ b = <<>>
                   THEN [error |-> <<"invalid literal for int()">>, color |-> <<>>]
                 ELSE IF ~(InRange(r[1]) /\ InRange(g[1]) /\ InRange(b[1]))
                   THEN [error |-> <<"Values must be 0-255">>, color |-> <<>>]
                 ELSE [error |-> <<>>, color |-> <<r[1], g[1], b[1]>>]

InitC ==
    /\ InitRunIdle
    /\ InitTIdle
    /\ InitFIdle
    /\ InitDIdle
    /\ InitIIdle
    /\ \E n \in 1..3, f \in FreePieces, e \in EdgePieces : \E k \in 1..n :
          color_str = Join([i \in 1..n |-> IF i = k THEN f ELSE e])
    /\ cpc = "args"
    /\ args_color = <<>>
    /\ cexit = <<>>
    /\ InitYIdle

\* parser.parse_args(): the type function is applied to the --color string
ParseArgs ==
    /\ cpc = "args"
    /\ LET res == parse_color(color_str)
       IN  IF res.error = <<>>
             THEN /\ args_color' = res.color
                  /\ cpc' = "parsed"
             ELSE /\ args_color' = <<>>
                  /\ cpc' = "argerror"
    /\ UNCHANGED <<color_str, cexit, runVars, tVars, fVars, dVars, iVars, yVars>>

\* ArgumentTypeError: argparse prints the usage and ends the process
ArgumentError ==
    /\ cpc = "argerror"
    /\ cpc' = "exited"
    /\ cexit' = <<2>>
    /\ UNCHANGED <<color_str, args_color, runVars, tVars, fVars, dVars, iVars, yVars>>

\* TileCleaner(bg_color=args.color, ...) and cleaner.run()
StartRun ==
    /\ cpc = "parsed"
    /\ cpc' = "run"
    /\ UNCHANGED <<color_str, args_color, cexit, runVars, tVars, fVars, dVars, iVars, yVars>>

NextC ==
    \/ ParseArgs
    \/ ArgumentError
    \/ StartRun

SpecC == InitC /\ [][NextC]_vars

(***************************************************************************)
(* download_tiles.py: TileDownloader.run and download_tile.                 *)
(* Tiles are numbered in the order of get_tile_urls. d_pc[t] is the         *)
(* position of the code working on tile t: the skip branch of run()        *)
(* (prog -> prog2 -> log -> logged -> stat -> stat2 -> done) or its         *)
(* download_tile call (check -> prog -> prog2 -> loop -> request -> ...),   *)
(* and doubles as the state of its future in parallel mode.                *)
(***************************************************************************)
DTiles == 1..d_ntiles

DStatNames == {"downloaded", "skipped", "failed"}

\* what one HTTP attempt can come to: the status code of the response (with
\* the outcome of the file write after a 200), or the exception raised by
\* requests.get
AllOutcomes ==
    {"200", "200-OpenError", "200-WriteError", "404", "403", "429", "5xx", "3xx",
     "Timeout", "ConnectionError", "RequestException"}

\* the outcomes SpecD lets the server give: a success, an error that is not
\* retried and one that is
RunOutcomes == {"200", "404", "5xx"}

\* lines 270-308: the text last_error is set to
LastErrorOf(o) ==
    CASE o = "404" -> "HTTP 404 - Tile not found"
      [] o = "403" -> "HTTP 403 - Access forbidden"
      [] o = "429" -> "HTTP 429 - Rate limited"
      [] o = "5xx" -> "HTTP 5xx - Server error"
      [] o = "3xx" -> "HTTP 3xx - Unexpected status"
      [] o = "Timeout" -> "Timeout"
      [] o = "ConnectionError" -> "Connection error"
      [] o = "RequestException" -> "Request error"
      [] o \in {"200-OpenError", "200-WriteError"} -> "File write error"

\* a loop that gives up on no error before the attempts are used
BreaksNever(o) == FALSE

\* lines 271, 275 and 309: the branches that leave the loop with break
Breaks(o) == o \in {"404", "403", "200-OpenError", "200-WriteError"}

\* lines 263-264: the file is there after open(filepath, "wb") succeeded,
\* whether or not f.write did
LeavesFile(o) == o \in {"200", "200-WriteError"}

\* positions of the code working on a tile between its start and its return
DRunning ==
    {"check", "prog", "prog2", "loop", "request", "ratelog", "ratelogged",
     "log", "logged", "stat", "stat2", "fail"}

DAlive == d_exit = <<>>

DMainRuns == DAlive /\ d_handler = "none"

\* the thread working on tile t: the main thread for the skip branch of
\* run() and when parallel <= 1, a pool thread otherwise (line 363)
DThreadOf(t) == IF d_status[t] # "skipped" /\ d_parallel > 1 THEN "worker" ELSE "main"

DTileRuns(t) == DAlive /\ (DThreadOf(t) = "main" => d_handler = "none")

\* the lowest zoom level (line 102: DEFAULT_ZOOM_LEVELS[0]; line 158)
MinZoom == 3

DigitChars == <<"0", "1", "2", "3", "4", "5", "6", "7", "8", "9">>

\* f"{n}" of an int n >= 0
RECURSIVE FormatInt(_)
FormatInt(n) ==
    IF n < 10 THEN <<DigitChars[n + 1]>>
    ELSE FormatInt(n \div 10) \o <<DigitChars[(n % 10) + 1]>>

\* ".png"
DotPng == <<".", "p", "n", "g">>

\* a grid that has one tile per axis more
GridOneMore(zoom) == IF zoom < MinZoom THEN <<>> ELSE <<5 * 2 ^ (zoom - MinZoom) + 1>>

\* lines 158-160: <<>> is ValueError, <<d>> the value returned
get_dimensions(zoom) == IF zoom < MinZoom THEN <<>> ELSE <<5 * 2 ^ (zoom - MinZoom)>>

\* line 178: f"{zoom}_{x}_{y}.png"
TileFileName(zoom, x, y) ==
    FormatInt(zoom) \o <<"_">> \o FormatInt(x) \o <<"_">> \o FormatInt(y) \o DotPng

\* line 177, the part of the URL between "Stable/" and "?v=": {zoom}/{x}/{y}.png
TileUrl(zoom, x, y) ==
    FormatInt(zoom) \o <<"/">> \o FormatInt(x) \o <<"/">> \o FormatInt(y) \o DotPng

\* lines 175-180: for y in range(dimensions): for x in range(dimensions)
RECURSIVE TileLoop(_, _, _, _, _)
TileLoop(zoom, dimensions, y, x, acc) ==
    IF y >= dimensions THEN acc
    ELSE IF x >= dimensions THEN TileLoop(zoom, dimensions, y + 1, 0, acc)
    ELSE TileLoop(zoom, dimensions, y, x + 1,
                  Append(acc, [url |-> TileUrl(zoom, x, y),
                               filename |-> TileFileName(zoom, x, y),
                               x |-> x, y |-> y]))

\* lines 172-182: the error of get_dimensions is passed on
get_tile_urls(zoom) ==
    LET dimensions == get_dimensions(zoom)
    IN  IF dimensions = <<>> THEN [error |-> TRUE, tiles |-> <<>>]
        ELSE [error |-> FALSE, tiles |-> TileLoop(zoom, dimensions[1], 0, 0, <<>>)]

\* lines 331-333 for the first zoom level; runs are cut to its first tiles
all_tiles == get_tile_urls(MinZoom).tiles

\* the file name of tile t of all_tiles
FileNameOf == [t \in 1..DlTiles |-> all_tiles[t].filename]

\* str.split(sep) for a separator of one character
RECURSIVE SplitOn(_, _, _, _)
SplitOn(s, sep, i, part) ==
    IF i > Len(s) THEN <<part>>
    ELSE IF s[i] = sep THEN <<part>> \o SplitOn(s, sep, i + 1, <<>>)
    ELSE SplitOn(s, sep, i + 1, Append(part, s[i]))

\* filename.rsplit('.', 1)[0]: the text before the last dot, or all of it
RSplitDotHead(s) ==
    LET dots == {i \in DOMAIN s : s[i] = "."}
    IN  IF dots = {} THEN s
        ELSE SubSeq(s, 1, (CHOOSE i \in dots : \A j \in dots : j <= i) - 1)

\* the folders come out in another order than the parts of the name
SwappedPath(filename) ==
    LET parts == SplitOn(RSplitDotHead(filename), "_", 1, <<>>)
    IN  IF Len(parts) = 3 THEN <<parts[1], parts[3], parts[2] \o DotPng>>
        ELSE <<filename>>

\* lines 194-200, relative to output_dir: zoom/x/y.png for a name of three
\* parts, else the flat path
get_organized_path(filename) ==
    LET parts == SplitOn(RSplitDotHead(filename), "_", 1, <<>>)
    IN  IF Len(parts) = 3 THEN <<parts[1], parts[2], parts[3] \o DotPng>>
        ELSE <<filename>>

\* os.path.exists of a path below output_dir: d_flat holds the names of the
\* files in output_dir itself, d_org the paths of the files in its folders
PathExists(path) == IF Len(path) = 1 THEN path[1] \in d_flat ELSE path \in d_org

\* str.isdigit() on ASCII text
IsDigits(p) == p # <<>> /\ \A i \in DOMAIN p : IsDigit(p[i])

\* lines 430-434: the names organize_tiles takes for flat tiles
IsFlatTile(filename) ==
    /\ EndsWith(filename, DotPng)
    /\ \E i \in DOMAIN filename : filename[i] = "_"
    /\ LET parts == SplitOn(RSplitDotHead(filename), "_", 1, <<>>)
       IN  Len(parts) = 3 /\ \A k \in 1..3 : IsDigits(parts[k])

\* lines 202-218: the flat path or the organized path exists
tile_exists(t) ==
    \/ PathExists(<<FileNameOf[t]>>)
    \/ PathExists(get_organized_path(FileNameOf[t]))

\* the files the tiles 1..n can have, a tile in at most one of its two places
TileFileSets(n) ==
    { [flat |-> {FileNameOf[t] : t \in f}, org |-> {get_organized_path(FileNameOf[t]) : t \in o}] :
        <<f, o>> \in {p \in (SUBSET (1..n)) \X (SUBSET (1..n)) : p[1] \cap p[2] = {}} }

\* line 450: the path organize_tiles moves a flat file to
MoveTarget(filename) == get_organized_path(filename)

InitDRun ==
    /\ d_ntiles \in 1..DlTiles
    /\ d_force \in BOOLEAN
    /\ d_parallel \in 1..MaxParallel
    /\ d_retries \in 0..MaxRetries
    /\ \E fs \in TileFileSets(d_ntiles) :
          /\ d_flat = fs.flat
          /\ d_org = fs.org
    /\ d_interrupted = FALSE
    /\ d_stats = [s \in DStatNames |-> 0]
    /\ d_failures = <<>>
    /\ d_progress_counter = 0
    /\ d_lock = [l \in {"progress", "stats", "failures", "log"} |-> "free"]
    /\ d_mainpc = "header"
    /\ d_cur = 1
    /\ d_todo = <<>>
    /\ d_handler = "none"
    /\ d_yielded = {}
    /\ d_summary = <<>>
    /\ d_exit = <<>>
    /\ d_moving = {}
    /\ d_pc = [t \in 1..d_ntiles |-> "new"]
    /\ d_tmp = [t \in 1..d_ntiles |-> 0]
    /\ d_ordinal = [t \in 1..d_ntiles |-> 0]
    /\ d_attempt = [t \in 1..d_ntiles |-> 0]
    /\ d_history = [t \in 1..d_ntiles |-> <<>>]
    /\ d_last_error = [t \in 1..d_ntiles |-> "None"]
    /\ d_status = [t \in 1..d_ntiles |-> "none"]
    /\ d_incs = [t \in 1..d_ntiles |-> <<>>]
    /\ d_writes = [t \in 1..d_ntiles |-> 0]
    /\ d_run = 1
    /\ d_had = {t \in 1..d_ntiles : tile_exists(t)}
    /\ d_got = {}

\* line 375: return 0 if self.stats["failed"] == 0 else 1
DExitCode == IF d_stats["failed"] = 0 THEN 0 ELSE 1

\* line 475: the number of failure records _print_summary lists
DSummaryLimit == 10

\* what _print_summary prints (lines 469-479). A line not printed is <<>>.
DSummaryOf ==
    [downloaded |-> d_stats["downloaded"],
     skipped |-> d_stats["skipped"],
     failed |-> IF d_stats["failed"] > 0 THEN <<d_stats["failed"]>> ELSE <<>>,
     failures |-> IF d_stats["failed"] > 0
                    THEN SubSeq(d_failures, 1, IF Len(d_failures) < DSummaryLimit
                                                 THEN Len(d_failures) ELSE DSummaryLimit)
                    ELSE <<>>,
     more |-> IF d_stats["failed"] > 0 /\ Len(d_failures) > DSummaryLimit
                THEN <<Len(d_failures) - DSummaryLimit>> ELSE <<>>]

\* the download is started without looking at the list
HasDownloadsAlways == TRUE

\* lines 358 and 362: if tiles_to_download
HasDownloads == d_todo # <<>>

\* The main thread enters a ColoredLogger print (with cls._lock): the header
\* (337-341), "All tiles already downloaded!" (359), the summary (463-480),
\* and in organize_tiles the lines 424, 441 and 461.
DMainPrintAcquire ==
    /\ DMainRuns
    /\ d_mainpc \in {"header", "allinfo", "summary", "organize", "noflat", "orgdone"}
    /\ d_lock["log"] = "free"
    /\ d_lock' = [d_lock EXCEPT !["log"] = "main"]
    /\ d_mainpc' = CASE d_mainpc = "header" -> "headerP"
                     [] d_mainpc = "allinfo" -> "allinfoP"
                     [] d_mainpc = "summary" -> "summaryP"
                     [] d_mainpc = "organize" -> "organizeP"
                     [] d_mainpc = "noflat" -> "noflatP"
                     [] d_mainpc = "orgdone" -> "orgdoneP"
    /\ d_summary' = IF d_mainpc = "summary" THEN <<DSummaryOf>> ELSE d_summary
    /\ UNCHANGED <<d_ntiles, d_force, d_parallel, d_retries, d_outcomes,
                   d_flat, d_org, d_interrupted, d_stats, d_failures,
                   d_progress_counter, d_cur, d_todo, d_handler, d_yielded,
                   d_exit, d_moving, d_pc, d_tmp, d_ordinal, d_attempt,
                   d_history, d_last_error, d_status, d_incs, d_writes,
                   runVars, tVars, fVars, cVars, iVars, yVars>>

\* the organize step is taken whatever the flag says
OrganizesAlways == TRUE

\* line 372: if not self.interrupted
Organizes == ~d_interrupted

\* The main thread leaves the print. After the summary run() organizes the
\* tiles or returns (lines 372-375); the process exits with the value
\* returned (line 607).
DMainPrintRelease ==
    /\ DMainRuns
    /\ d_mainpc \in {"headerP", "allinfoP", "summaryP", "organizeP", "noflatP", "orgdoneP"}
    /\ d_lock' = [d_lock EXCEPT !["log"] = "free"]
    /\ d_mainpc' = CASE d_mainpc = "headerP" -> "filter"
                     [] d_mainpc = "allinfoP" -> "summary"
                     [] d_mainpc = "summaryP" -> (IF Organizes THEN "organize" ELSE "done")
                     [] d_mainpc = "organizeP" -> "listdir"
                     [] d_mainpc = "noflatP" -> "done"
                     [] d_mainpc = "orgdoneP" -> "done"
    /\ d_exit' = IF \/ d_mainpc \in {"noflatP", "orgdoneP"}
                    \/ (d_mainpc = "summaryP" /\ ~Organizes)
                 THEN <<DExitCode>> ELSE d_exit
    /\ UNCHANGED <<d_ntiles, d_force, d_parallel, d_retries, d_outcomes,
                   d_flat, d_org, d_interrupted, d_stats, d_failures,
                   d_progress_counter, d_cur, d_todo, d_handler, d_yielded,
                   d_summary, d_moving, d_pc, d_tmp, d_ordinal, d_attempt,
                   d_history, d_last_error, d_status, d_incs, d_writes,
                   runVars, tVars, fVars, cVars, iVars, yVars>>

\* the existence test is skipped: every tile is downloaded again
SkipsNever(t) == FALSE

\* line 350: if not force and self.tile_exists(filepath, filename)
Skips(t) == ~d_force /\ tile_exists(t)

\* lines 345-356, one iteration head of the filter loop: the loop ends or
\* breaks, or the next tile enters the skip branch (351-354), or it is put
\* on tiles_to_download
Filter ==
    /\ DMainRuns
    /\ d_mainpc = "filter"
    /\ \A t \in DTiles : d_pc[t] \notin DRunning
    /\ IF d_cur > d_ntiles \/ d_interrupted
       THEN /\ d_mainpc' = IF ~HasDownloads THEN "allinfo"
                           ELSE IF d_parallel > 1 THEN "submit" ELSE "loop"
            /\ d_cur' = 1
            /\ UNCHANGED <<d_pc, d_status, d_todo>>
       ELSE /\ d_cur' = d_cur + 1
            /\ IF Skips(d_cur)
               THEN /\ d_pc' = [d_pc EXCEPT ![d_cur] = "prog"]
                    /\ d_status' = [d_status EXCEPT ![d_cur] = "skipped"]
                    /\ UNCHANGED d_todo
               ELSE /\ d_todo' = Append(d_todo, d_cur)
                    /\ UNCHANGED <<d_pc, d_status>>
            /\ UNCHANGED d_mainpc
    /\ UNCHANGED <<d_ntiles, d_force, d_parallel, d_retries, d_outcomes,
                   d_flat, d_org, d_interrupted, d_stats, d_failures,
                   d_progress_counter, d_lock, d_handler, d_yielded,
                   d_summary, d_exit, d_moving, d_tmp, d_ordinal, d_attempt,
                   d_history, d_last_error, d_incs, d_writes, runVars,
                   tVars, fVars, cVars, iVars, yVars>>

\* lines 379-383, one iteration head of _download_sequential: the previous
\* download_tile call has returned; the loop ends, breaks, or calls
\* download_tile on the next tile
DSeqLoop ==
    /\ DMainRuns
    /\ d_mainpc = "loop"
    /\ \A t \in DTiles : d_pc[t] \notin DRunning
    /\ IF d_cur > Len(d_todo) \/ d_interrupted
       THEN /\ d_mainpc' = "summary"
            /\ UNCHANGED <<d_cur, d_pc>>
       ELSE /\ d_pc' = [d_pc EXCEPT ![d_todo[d_cur]] = "check"]
            /\ d_cur' = d_cur + 1
            /\ UNCHANGED d_mainpc
    /\ UNCHANGED <<d_ntiles, d_force, d_parallel, d_retries, d_outcomes,
                   d_flat, d_org, d_interrupted, d_stats, d_failures,
                   d_progress_counter, d_lock, d_todo, d_handler, d_yielded,
                   d_summary, d_exit, d_moving, d_tmp, d_ordinal, d_attempt,
                   d_history, d_last_error, d_status, d_incs, d_writes,
                   runVars, tVars, fVars, cVars, iVars, yVars>>

\* lines 393-396: executor.submit for the next tile of tiles_to_download
DSubmit ==
    /\ DMainRuns
    /\ d_mainpc = "submit"
    /\ d_pc' = [d_pc EXCEPT ![d_todo[d_cur]] = "queued"]
    /\ d_cur' = IF d_cur = Len(d_todo) THEN 1 ELSE d_cur + 1
    /\ d_mainpc' = IF d_cur = Len(d_todo) THEN "wait" ELSE "submit"
    /\ UNCHANGED <<d_ntiles, d_force, d_parallel, d_retries, d_outcomes,
                   d_flat, d_org, d_interrupted, d_stats, d_failures,
                   d_progress_counter, d_lock, d_todo, d_handler, d_yielded,
                   d_summary, d_exit, d_moving, d_tmp, d_ordinal, d_attempt,
                   d_history, d_last_error, d_status, d_incs, d_writes,
                   runVars, tVars, fVars, cVars, iVars, yVars>>

DInQueue == {t \in DTiles : d_pc[t] \in {"queued", "cancelled"}}

DBusy == {t \in DTiles : d_pc[t] \in DRunning /\ DThreadOf(t) = "worker"}

\* line 391: max_workers=self.parallel. A worker thread takes the head of
\* the FIFO queue: a cancelled item is discarded, a pending one starts
\* download_tile.
DWorkerTake ==
    /\ DAlive
    /\ d_parallel > 1
    /\ DInQueue # {}
    /\ Cardinality(DBusy) < d_parallel
    /\ LET h == CHOOSE t \in DInQueue : \A u \in DInQueue : t <= u
       IN  d_pc' = [d_pc EXCEPT ![h] = IF d_pc[h] = "queued" THEN "check" ELSE "dropped"]
    /\ UNCHANGED <<d_ntiles, d_force, d_parallel, d_retries, d_outcomes,
                   d_flat, d_org, d_interrupted, d_stats, d_failures,
                   d_progress_counter, d_lock, d_mainpc, d_cur, d_todo,
                   d_handler, d_yielded, d_summary, d_exit, d_moving, d_tmp,
                   d_ordinal, d_attempt, d_history, d_last_error, d_status,
                   d_incs, d_writes, runVars, tVars, fVars, cVars, iVars, yVars>>

\* the futures of the tiles submitted
DFutures == {d_todo[k] : k \in 1..Len(d_todo)}

\* lines 400-411: as_completed yields a finished future; the loop body
\* starts cancelling when the flag is set, else takes the result. The loop
\* ends when every future was yielded.
DAsCompleted ==
    /\ DMainRuns
    /\ d_mainpc = "wait"
    /\ IF d_yielded = DFutures
       THEN /\ d_mainpc' = "shutdown"
            /\ UNCHANGED <<d_yielded, d_cur>>
       ELSE \E t \in DFutures \ d_yielded :
               /\ d_pc[t] \in {"done", "returned"}
               /\ IF d_interrupted
                  THEN /\ d_mainpc' = "cancel"
                       /\ d_cur' = 1
                       /\ UNCHANGED d_yielded
                  ELSE /\ d_yielded' = d_yielded \cup {t}
                       /\ UNCHANGED <<d_mainpc, d_cur>>
    /\ UNCHANGED <<d_ntiles, d_force, d_parallel, d_retries, d_outcomes,
                   d_flat, d_org, d_interrupted, d_stats, d_failures,
                   d_progress_counter, d_lock, d_todo, d_handler, d_summary,
                   d_exit, d_moving, d_pc, d_tmp, d_ordinal, d_attempt,
                   d_history, d_last_error, d_status, d_incs, d_writes,
                   runVars, tVars, fVars, cVars, iVars, yVars>>

\* lines 403-405: for f in futures: f.cancel(); break. cancel() changes
\* only a PENDING future.
DCancelStep ==
    /\ DMainRuns
    /\ d_mainpc = "cancel"
    /\ IF d_cur > Len(d_todo)
       THEN /\ d_mainpc' = "shutdown"
            /\ UNCHANGED <<d_pc, d_cur>>
       ELSE /\ d_pc' = [d_pc EXCEPT ![d_todo[d_cur]] = IF @ = "queued" THEN "cancelled" ELSE @]
            /\ d_cur' = d_cur + 1
            /\ UNCHANGED d_mainpc
    /\ UNCHANGED <<d_ntiles, d_force, d_parallel, d_retries, d_outcomes,
                   d_flat, d_org, d_interrupted, d_stats, d_failures,
                   d_progress_counter, d_lock, d_todo, d_handler, d_yielded,
                   d_summary, d_exit, d_moving, d_tmp, d_ordinal, d_attempt,
                   d_history, d_last_error, d_status, d_incs, d_writes,
                   runVars, tVars, fVars, cVars, iVars, yVars>>

\* line 391, __exit__: executor.shutdown(wait=True) joins the worker
\* threads, which first empty the queue and finish their running items
DShutdown ==
    /\ DMainRuns
    /\ d_mainpc = "shutdown"
    /\ DInQueue = {}
    /\ DBusy = {}
    /\ d_mainpc' = "summary"
    /\ UNCHANGED <<d_ntiles, d_force, d_parallel, d_retries, d_outcomes,
                   d_flat, d_org, d_interrupted, d_stats, d_failures,
                   d_progress_counter, d_lock, d_cur, d_todo, d_handler,
                   d_yielded, d_summary, d_exit, d_moving, d_pc, d_tmp,
                   d_ordinal, d_attempt, d_history, d_last_error, d_status,
                   d_incs, d_writes, runVars, tVars, fVars, cVars, iVars, yVars>>

\* lines 427-442: os.listdir gives the flat files zoom_x_y.png
ListDir ==
    /\ DMainRuns
    /\ d_mainpc = "listdir"
    /\ d_moving' = {f \in d_flat : IsFlatTile(f)}
    /\ d_mainpc' = IF d_moving' = {} THEN "noflat" ELSE "orgloop"
    /\ UNCHANGED <<d_ntiles, d_force, d_parallel, d_retries, d_outcomes,
                   d_flat, d_org, d_interrupted, d_stats, d_failures,
                   d_progress_counter, d_lock, d_cur, d_todo, d_handler,
                   d_yielded, d_summary, d_exit, d_pc, d_tmp, d_ordinal,
                   d_attempt, d_history, d_last_error, d_status, d_incs,
                   d_writes, runVars, tVars, fVars, cVars, iVars, yVars>>

\* the loop over the flat files does not look at the flag
MoveStopsNever == FALSE

\* line 446: if self.interrupted: break
MoveStops == d_interrupted

\* lines 445-447, the head of one iteration of the loop over flat_files:
\* the list is exhausted, or the flag is set and the loop breaks, or the
\* body is entered
MoveLoopHead ==
    /\ DMainRuns
    /\ d_mainpc = "orgloop"
    /\ d_mainpc' = IF d_moving = {} \/ MoveStops THEN "orgdone" ELSE "orgmove"
    /\ UNCHANGED <<d_ntiles, d_force, d_parallel, d_retries, d_outcomes,
                   d_flat, d_org, d_interrupted, d_stats, d_failures,
                   d_progress_counter, d_lock, d_cur, d_todo, d_handler,
                   d_yielded, d_summary, d_exit, d_moving, d_pc, d_tmp,
                   d_ordinal, d_attempt, d_history, d_last_error, d_status,
                   d_incs, d_writes, runVars, tVars, fVars, cVars, iVars, yVars>>

\* lines 449-457, the body: the next file of flat_files (in the order
\* os.listdir gave them) is renamed to its organized path
MoveTile ==
    /\ DMainRuns
    /\ d_mainpc = "orgmove"
    /\ \E f \in d_moving :
          /\ d_moving' = d_moving \ {f}
          /\ d_flat' = d_flat \ {f}
          /\ d_org' = d_org \cup {MoveTarget(f)}
    /\ d_mainpc' = "orgloop"
    /\ UNCHANGED <<d_ntiles, d_force, d_parallel, d_retries, d_outcomes,
                   d_interrupted, d_stats, d_failures, d_progress_counter,
                   d_lock, d_cur, d_todo, d_handler, d_yielded, d_summary,
                   d_exit, d_pc, d_tmp, d_ordinal, d_attempt, d_history,
                   d_last_error, d_status, d_incs, d_writes, runVars, tVars,
                   fVars, cVars, iVars, yVars>>

\* line 249: if self.interrupted: return False
DEntryCheck(t) ==
    /\ DTileRuns(t)
    /\ d_pc[t] = "check"
    /\ d_pc' = [d_pc EXCEPT ![t] = IF d_interrupted THEN "returned" ELSE "prog"]
    /\ UNCHANGED <<d_ntiles, d_force, d_parallel, d_retries, d_outcomes,
                   d_flat, d_org, d_interrupted, d_stats, d_failures,
                   d_progress_counter, d_lock, d_mainpc, d_cur, d_todo,
                   d_handler, d_yielded, d_summary, d_exit, d_moving, d_tmp,
                   d_ordinal, d_attempt, d_history, d_last_error, d_status,
                   d_incs, d_writes, runVars, tVars, fVars, cVars, iVars, yVars>>

\* lines 222-223: with self.progress_lock: read of self.progress_counter
DProgressAcquire(t) ==
    /\ DTileRuns(t)
    /\ d_pc[t] = "prog"
    /\ d_lock["progress"] = "free"
    /\ d_lock' = [d_lock EXCEPT !["progress"] = DThreadOf(t)]
    /\ d_tmp' = [d_tmp EXCEPT ![t] = d_progress_counter]
    /\ d_pc' = [d_pc EXCEPT ![t] = "prog2"]
    /\ UNCHANGED <<d_ntiles, d_force, d_parallel, d_retries, d_outcomes,
                   d_flat, d_org, d_interrupted, d_stats, d_failures,
                   d_progress_counter, d_mainpc, d_cur, d_todo, d_handler,
                   d_yielded, d_summary, d_exit, d_moving, d_ordinal,
                   d_attempt, d_history, d_last_error, d_status, d_incs,
                   d_writes, runVars, tVars, fVars, cVars, iVars, yVars>>

\* lines 223-224: the store of += 1, return self.progress_counter, release.
\* The skip branch goes on to its progress line (352), download_tile to
\* its attempts (253-255).
DProgressRelease(t) ==
    /\ DTileRuns(t)
    /\ d_pc[t] = "prog2"
    /\ d_progress_counter' = d_tmp[t] + 1
    /\ d_ordinal' = [d_ordinal EXCEPT ![t] = d_tmp[t] + 1]
    /\ d_lock' = [d_lock EXCEPT !["progress"] = "free"]
    /\ d_tmp' = [d_tmp EXCEPT ![t] = 0]
    /\ d_pc' = [d_pc EXCEPT ![t] = IF d_status[t] = "skipped" THEN "log" ELSE "loop"]
    /\ UNCHANGED <<d_ntiles, d_force, d_parallel, d_retries, d_outcomes,
                   d_flat, d_org, d_interrupted, d_stats, d_failures,
                   d_mainpc, d_cur, d_todo, d_handler, d_yielded, d_summary,
                   d_exit, d_moving, d_attempt, d_history, d_last_error,
                   d_status, d_incs, d_writes, runVars, tVars, fVars, cVars, iVars, yVars>>

\* the loop makes one attempt more than self.retries
AttemptsLeftOneMore(t) == d_attempt[t] < d_retries + 1

\* line 255: for attempt in range(1, self.retries + 1) has a next value
AttemptsLeft(t) == d_attempt[t] < d_retries

\* the flag is not looked at between two attempts
AttemptStopsNever == FALSE

\* line 256: if self.interrupted (return False, line 257)
AttemptStops == d_interrupted

\* lines 255-257, the head of one iteration: the range is exhausted (the
\* code after the loop counts the tile failed, 312-315), or the flag is set
\* and download_tile returns, or the next attempt starts
DLoopHead(t) ==
    /\ DTileRuns(t)
    /\ d_pc[t] = "loop"
    /\ IF ~AttemptsLeft(t)
       THEN /\ d_status' = [d_status EXCEPT ![t] = "failed"]
            /\ d_pc' = [d_pc EXCEPT ![t] = "log"]
            /\ UNCHANGED d_attempt
       ELSE IF AttemptStops
       THEN /\ d_pc' = [d_pc EXCEPT ![t] = "returned"]
            /\ UNCHANGED <<d_status, d_attempt>>
       ELSE /\ d_attempt' = [d_attempt EXCEPT ![t] = @ + 1]
            /\ d_pc' = [d_pc EXCEPT ![t] = "request"]
            /\ UNCHANGED d_status
    /\ UNCHANGED <<d_ntiles, d_force, d_parallel, d_retries, d_outcomes,
                   d_flat, d_org, d_interrupted, d_stats, d_failures,
                   d_progress_counter, d_lock, d_mainpc, d_cur, d_todo,
                   d_handler, d_yielded, d_summary, d_exit, d_moving, d_tmp,
                   d_ordinal, d_history, d_last_error, d_incs, d_writes,
                   runVars, tVars, fVars, cVars, iVars, yVars>>

\* lines 260-309, one attempt: requests.get and the branch the response or
\* the exception leads to. A 200 writes the file and goes to the progress
\* line (265); a break leaves the loop for line 312; a 429 prints its
\* warning (280); every other outcome goes to the next iteration, by
\* continue or by falling off the end of the loop body.
DRequest(t) ==
    /\ DTileRuns(t)
    /\ d_pc[t] = "request"
    /\ \E o \in d_outcomes :
          /\ d_history' = [d_history EXCEPT ![t] = Append(@, o)]
          /\ d_flat' = IF LeavesFile(o) THEN d_flat \cup {FileNameOf[t]} ELSE d_flat
          /\ d_writes' = [d_writes EXCEPT ![t] = IF LeavesFile(o) THEN @ + 1 ELSE @]
          /\ d_last_error' = [d_last_error EXCEPT ![t] = IF o = "200" THEN @ ELSE LastErrorOf(o)]
          /\ d_status' = [d_status EXCEPT ![t] = IF o = "200" THEN "downloaded"
                                                 ELSE IF Breaks(o) THEN "failed" ELSE @]
          /\ d_pc' = [d_pc EXCEPT ![t] = IF o = "200" \/ Breaks(o) THEN "log"
                                         ELSE IF o = "429" THEN "ratelog" ELSE "loop"]
    /\ UNCHANGED <<d_ntiles, d_force, d_parallel, d_retries, d_outcomes,
                   d_org, d_interrupted, d_stats, d_failures,
                   d_progress_counter, d_lock, d_mainpc, d_cur, d_todo,
                   d_handler, d_yielded, d_summary, d_exit, d_moving, d_tmp,
                   d_ordinal, d_attempt, d_incs, runVars, tVars, fVars, cVars, iVars, yVars>>

\* lines 265/312/352 and 280: ColoredLogger.progress or .warning enters
\* `with cls._lock`
DLogAcquire(t) ==
    /\ DTileRuns(t)
    /\ d_pc[t] \in {"log", "ratelog"}
    /\ d_lock["log"] = "free"
    /\ d_lock' = [d_lock EXCEPT !["log"] = DThreadOf(t)]
    /\ d_pc' = [d_pc EXCEPT ![t] = IF @ = "log" THEN "logged" ELSE "ratelogged"]
    /\ UNCHANGED <<d_ntiles, d_force, d_parallel, d_retries, d_outcomes,
                   d_flat, d_org, d_interrupted, d_stats, d_failures,
                   d_progress_counter, d_mainpc, d_cur, d_todo, d_handler,
                   d_yielded, d_summary, d_exit, d_moving, d_tmp, d_ordinal,
                   d_attempt, d_history, d_last_error, d_status, d_incs,
                   d_writes, runVars, tVars, fVars, cVars, iVars, yVars>>

\* the line is printed and the logger lock released; after the warning of
\* line 280 the loop continues (281-282)
DLogRelease(t) ==
    /\ DTileRuns(t)
    /\ d_pc[t] \in {"logged", "ratelogged"}
    /\ d_lock' = [d_lock EXCEPT !["log"] = "free"]
    /\ d_pc' = [d_pc EXCEPT ![t] = IF @ = "logged" THEN "stat" ELSE "loop"]
    /\ UNCHANGED <<d_ntiles, d_force, d_parallel, d_retries, d_outcomes,
                   d_flat, d_org, d_interrupted, d_stats, d_failures,
                   d_progress_counter, d_mainpc, d_cur, d_todo, d_handler,
                   d_yielded, d_summary, d_exit, d_moving, d_tmp, d_ordinal,
                   d_attempt, d_history, d_last_error, d_status, d_incs,
                   d_writes, runVars, tVars, fVars, cVars, iVars, yVars>>

\* lines 228-229: with self.stats_lock: read of self.stats[stat]
DStatAcquire(t) ==
    /\ DTileRuns(t)
    /\ d_pc[t] = "stat"
    /\ d_lock["stats"] = "free"
    /\ d_lock' = [d_lock EXCEPT !["stats"] = DThreadOf(t)]
    /\ d_tmp' = [d_tmp EXCEPT ![t] = d_stats[d_status[t]]]
    /\ d_pc' = [d_pc EXCEPT ![t] = "stat2"]
    /\ UNCHANGED <<d_ntiles, d_force, d_parallel, d_retries, d_outcomes,
                   d_flat, d_org, d_interrupted, d_stats, d_failures,
                   d_progress_counter, d_mainpc, d_cur, d_todo, d_handler,
                   d_yielded, d_summary, d_exit, d_moving, d_ordinal,
                   d_attempt, d_history, d_last_error, d_status, d_incs,
                   d_writes, runVars, tVars, fVars, cVars, iVars, yVars>>

\* line 229: the store of += 1, release; downloaded returns True (267),
\* skipped continues the filter loop (354)
DStatRelease(t) ==
    /\ DTileRuns(t)
    /\ d_pc[t] = "stat2"
    /\ d_stats' = [d_stats EXCEPT ![d_status[t]] = d_tmp[t] + 1]
    /\ d_incs' = [d_incs EXCEPT ![t] = Append(@, d_status[t])]
    /\ d_lock' = [d_lock EXCEPT !["stats"] = "free"]
    /\ d_tmp' = [d_tmp EXCEPT ![t] = 0]
    /\ d_pc' = [d_pc EXCEPT ![t] = IF d_status[t] = "failed" THEN "fail" ELSE "done"]
    /\ UNCHANGED <<d_ntiles, d_force, d_parallel, d_retries, d_outcomes,
                   d_flat, d_org, d_interrupted, d_failures,
                   d_progress_counter, d_mainpc, d_cur, d_todo, d_handler,
                   d_yielded, d_summary, d_exit, d_moving, d_ordinal,
                   d_attempt, d_history, d_last_error, d_status, d_writes,
                   runVars, tVars, fVars, cVars, iVars, yVars>>

\* lines 314-315 and 233-234: the record is appended under failures_lock
\* and download_tile returns False
DAddFailure(t) ==
    /\ DTileRuns(t)
    /\ d_pc[t] = "fail"
    /\ d_lock["failures"] = "free"
    /\ d_failures' = Append(d_failures, [name |-> t, error |-> d_last_error[t]])
    /\ d_pc' = [d_pc EXCEPT ![t] = "done"]
    /\ UNCHANGED <<d_ntiles, d_force, d_parallel, d_retries, d_outcomes,
                   d_flat, d_org, d_interrupted, d_stats, d_progress_counter,
                   d_lock, d_mainpc, d_cur, d_todo, d_handler, d_yielded,
                   d_summary, d_exit, d_moving, d_tmp, d_ordinal, d_attempt,
                   d_history, d_last_error, d_status, d_incs, d_writes,
                   runVars, tVars, fVars, cVars, iVars, yVars>>

\* lines 132, 136-139 up to the ColoredLogger call: the handler runs on
\* the main thread; the flag test and the store
DInterrupt ==
    /\ DAlive
    /\ d_mainpc # "idle"
    /\ d_handler' = IF d_interrupted THEN "quit" ELSE "warn"
    /\ d_interrupted' = TRUE
    /\ UNCHANGED <<d_ntiles, d_force, d_parallel, d_retries, d_outcomes,
                   d_flat, d_org, d_stats, d_failures, d_progress_counter,
                   d_lock, d_mainpc, d_cur, d_todo, d_yielded, d_summary,
                   d_exit, d_moving, d_pc, d_tmp, d_ordinal, d_attempt,
                   d_history, d_last_error, d_status, d_incs, d_writes,
                   runVars, tVars, fVars, cVars, iVars, yVars>>

\* lines 137-138 and 140: ColoredLogger.error/warning take cls._lock, then
\* the handler returns ("warn") or calls os._exit(1) ("quit")
DHandlerPrint ==
    /\ DAlive
    /\ d_handler # "none"
    /\ d_lock["log"] = "free"
    /\ d_handler' = "none"
    /\ d_exit' = IF d_handler = "quit" THEN <<1>> ELSE d_exit
    /\ d_mainpc' = IF d_handler = "quit" THEN "exited" ELSE d_mainpc
    /\ UNCHANGED <<d_ntiles, d_force, d_parallel, d_retries, d_outcomes,
                   d_flat, d_org, d_interrupted, d_stats, d_failures,
                   d_progress_counter, d_lock, d_cur, d_todo, d_yielded,
                   d_summary, d_moving, d_pc, d_tmp, d_ordinal, d_attempt,
                   d_history, d_last_error, d_status, d_incs, d_writes,
                   runVars, tVars, fVars, cVars, iVars, yVars>>

\* every step of the downloader itself (all but the arrival of a signal)
DProgramStep ==
    \/ DMainPrintAcquire
    \/ DMainPrintRelease
    \/ Filter
    \/ DSeqLoop
    \/ DSubmit
    \/ DWorkerTake
    \/ DAsCompleted
    \/ DCancelStep
    \/ DShutdown
    \/ ListDir
    \/ MoveLoopHead
    \/ MoveTile
    \/ DHandlerPrint
    \/ \E t \in DTiles :
          \/ DEntryCheck(t)
          \/ DProgressAcquire(t)
          \/ DProgressRelease(t)
          \/ DLoopHead(t)
          \/ DRequest(t)
          \/ DLogAcquire(t)
          \/ DLogRelease(t)
          \/ DStatAcquire(t)
          \/ DStatRelease(t)
          \/ DAddFailure(t)

NextD ==
    \/ DMainPrintAcquire
    \/ DMainPrintRelease
    \/ Filter
    \/ DSeqLoop
    \/ DSubmit
    \/ DWorkerTake
    \/ DAsCompleted
    \/ DCancelStep
    \/ DShutdown
    \/ ListDir
    \/ MoveLoopHead
    \/ MoveTile
    \/ DInterrupt
    \/ DHandlerPrint
    \/ \E t \in DTiles : DEntryCheck(t)
    \/ \E t \in DTiles : DProgressAcquire(t)
    \/ \E t \in DTiles : DProgressRelease(t)
    \/ \E t \in DTiles : DLoopHead(t)
    \/ \E t \in DTiles : DRequest(t)
    \/ \E t \in DTiles : DLogAcquire(t)
    \/ \E t \in DTiles : DLogRelease(t)
    \/ \E t \in DTiles : DStatAcquire(t)
    \/ \E t \in DTiles : DStatRelease(t)
    \/ \E t \in DTiles : DAddFailure(t)

InitD ==
    /\ InitRunIdle
    /\ InitTIdle
    /\ InitFIdle
    /\ InitCIdle
    /\ InitDRun
    /\ d_outcomes = RunOutcomes
    /\ InitIIdle
    /\ InitYIdle

SpecD == InitD /\ [][NextD]_vars

\* tiles whose last attempt of the run wrote the file after a 200 (263-264)
Got == {t \in DTiles : d_history[t] # <<>> /\ d_history[t][Len(d_history[t])] = "200"}

\* lines 605-613 and 104-132: the process has ended (run() returned, or
\* os._exit(1)) and download_tiles.py is started again on the same output
\* directory and zoom levels: a new TileDownloader, with the arguments of
\* the new command line, finds the files the runs before left
DRunAgain ==
    /\ ~DAlive
    /\ d_run < DlRuns
    /\ d_run' = d_run + 1
    /\ d_had' = {t \in DTiles : tile_exists(t)}
    /\ d_got' = Got
    /\ d_force' \in BOOLEAN
    /\ d_parallel' \in 1..MaxParallel
    /\ d_retries' \in 0..MaxRetries
    /\ d_interrupted' = FALSE
    /\ d_stats' = [s \in DStatNames |-> 0]
    /\ d_failures' = <<>>
    /\ d_progress_counter' = 0
    /\ d_lock' = [l \in {"progress", "stats", "failures", "log"} |-> "free"]
    /\ d_mainpc' = "header"
    /\ d_cur' = 1
    /\ d_todo' = <<>>
    /\ d_handler' = "none"
    /\ d_yielded' = {}
    /\ d_summary' = <<>>
    /\ d_exit' = <<>>
    /\ d_moving' = {}
    /\ d_pc' = [t \in DTiles |-> "new"]
    /\ d_tmp' = [t \in DTiles |-> 0]
    /\ d_ordinal' = [t \in DTiles |-> 0]
    /\ d_attempt' = [t \in DTiles |-> 0]
    /\ d_history' = [t \in DTiles |-> <<>>]
    /\ d_last_error' = [t \in DTiles |-> "None"]
    /\ d_status' = [t \in DTiles |-> "none"]
    /\ d_incs' = [t \in DTiles |-> <<>>]
    /\ d_writes' = [t \in DTiles |-> 0]
    /\ UNCHANGED <<d_ntiles, d_outcomes, d_flat, d_org, i_had, runVars, tVars, fVars,
                   cVars, iVars, afterR>>

NextDD ==
    \/ NextD
    \/ DRunAgain

\* runs of download_tiles.py one after the other
SpecDD == InitD /\ [][NextDD]_vars

(***************************************************************************)
(* download_images.py: ImageDownloader.run and download_image. One thread, *)
(* no lock; the images are numbered in manifest order (enumerate from 1).  *)
(***************************************************************************)
Images == 1..i_nimages

IStatNames == {"downloaded", "skipped", "skipped_format", "failed"}

\* lines 111-149: the text last_error is set to
ImageLastErrorOf(o) ==
    CASE o = "404" -> "HTTP 404 - Image not found on wiki"
      [] o = "403" -> "HTTP 403 - Access forbidden"
      [] o = "429" -> "HTTP 429 - Rate limited"
      [] o = "5xx" -> "HTTP 5xx - Server error"
      [] o = "3xx" -> "HTTP 3xx - Unexpected status"
      [] o = "Timeout" -> "Timeout"
      [] o = "ConnectionError" -> "Connection error"
      [] o = "RequestException" -> "Request error"
      [] o \in {"200-OpenError", "200-WriteError"} -> "File write error"

\* lines 112, 116 and 150: the branches that leave the loop with break
ImageBreaks(o) == o \in {"404", "403", "200-OpenError", "200-WriteError"}

\* lines 104-105: the file is there after open(filepath, "wb") succeeded
ImageLeavesFile(o) == o \in {"200", "200-WriteError"}

\* line 99: for attempt in range(1, self.retries + 1) has a next value
ImageAttemptsLeft == i_attempt < i_retries

IAlive == i_exit = <<>>

InitIRun ==
    /\ i_nimages \in 0..MaxImages
    /\ i_manifest \in BOOLEAN
    /\ i_png \in [1..i_nimages -> BOOLEAN]
    /\ i_have \in SUBSET (1..i_nimages)
    /\ i_force \in BOOLEAN
    /\ i_retries \in 0..MaxRetries
    /\ i_outcomes = AllOutcomes
    /\ i_interrupted = FALSE
    /\ i_stats = [s \in IStatNames |-> 0]
    /\ i_failures = <<>>
    /\ i_pc = "start"
    /\ i_cur = 1
    /\ i_attempt = 0
    /\ i_last_error = "None"
    /\ i_history = [k \in 1..i_nimages |-> <<>>]
    /\ i_incs = [k \in 1..i_nimages |-> <<>>]
    /\ i_writes = [k \in 1..i_nimages |-> 0]
    /\ i_summary = <<>>
    /\ i_exit = <<>>
    /\ i_had = i_have

\* lines 160-171: a missing manifest ends the process with status 1
IStart ==
    /\ IAlive
    /\ i_pc = "start"
    /\ IF i_manifest
       THEN /\ i_pc' = "loop"
            /\ UNCHANGED i_exit
       ELSE /\ i_pc' = "exited"
            /\ i_exit' = <<1>>
    /\ UNCHANGED <<i_nimages, i_manifest, i_png, i_have, i_force, i_retries,
                   i_outcomes, i_interrupted, i_stats, i_failures, i_cur,
                   i_attempt, i_last_error, i_history, i_incs, i_writes,
                   i_summary, runVars, tVars, fVars, cVars, dVars, yVars>>

\* lines 173-193, the head of one iteration: the loop ends or breaks; a
\* name that is not .png is counted skipped_format; an existing file is
\* counted skipped unless force; otherwise download_image is called
ILoop ==
    /\ IAlive
    /\ i_pc = "loop"
    /\ IF i_cur > i_nimages \/ i_interrupted
       THEN /\ i_pc' = "summary"
            /\ UNCHANGED <<i_cur, i_stats, i_incs, i_attempt, i_last_error>>
       ELSE IF ~i_png[i_cur]
       THEN /\ i_stats' = [i_stats EXCEPT !["skipped_format"] = @ + 1]
            /\ i_incs' = [i_incs EXCEPT ![i_cur] = Append(@, "skipped_format")]
            /\ i_cur' = i_cur + 1
            /\ UNCHANGED <<i_pc, i_attempt, i_last_error>>
       ELSE IF ~i_force /\ i_cur \in i_have
       THEN /\ i_stats' = [i_stats EXCEPT !["skipped"] = @ + 1]
            /\ i_incs' = [i_incs EXCEPT ![i_cur] = Append(@, "skipped")]
            /\ i_cur' = i_cur + 1
            /\ UNCHANGED <<i_pc, i_attempt, i_last_error>>
       ELSE /\ i_pc' = "attempt"
            /\ i_attempt' = 0
            /\ i_last_error' = "None"
            /\ UNCHANGED <<i_cur, i_stats, i_incs>>
    /\ UNCHANGED <<i_nimages, i_manifest, i_png, i_have, i_force, i_retries,
                   i_outcomes, i_interrupted, i_failures, i_history,
                   i_writes, i_summary, i_exit, runVars, tVars, fVars, cVars,
                   dVars, yVars>>

\* line 99, the head of one iteration of download_image: the range is
\* exhausted (the code after the loop counts the image failed), or the
\* next attempt starts
IAttempt ==
    /\ IAlive
    /\ i_pc = "attempt"
    /\ IF ImageAttemptsLeft
       THEN /\ i_attempt' = i_attempt + 1
            /\ i_pc' = "request"
       ELSE /\ i_pc' = "fail"
            /\ UNCHANGED i_attempt
    /\ UNCHANGED <<i_nimages, i_manifest, i_png, i_have, i_force, i_retries,
                   i_outcomes, i_interrupted, i_stats, i_failures, i_cur,
                   i_last_error, i_history, i_incs, i_writes, i_summary,
                   i_exit, runVars, tVars, fVars, cVars, dVars, yVars>>

\* lines 100-150, one attempt: requests.get and the branch the response or
\* the exception leads to. A 200 writes the file, counts the image
\* downloaded and returns True; a break leaves the loop for line 153;
\* every other outcome goes to the next iteration.
IRequest ==
    /\ IAlive
    /\ i_pc = "request"
    /\ \E o \in i_outcomes :
          /\ i_history' = [i_history EXCEPT ![i_cur] = Append(@, o)]
          /\ i_have' = IF ImageLeavesFile(o) THEN i_have \cup {i_cur} ELSE i_have
          /\ i_writes' = [i_writes EXCEPT ![i_cur] = IF ImageLeavesFile(o) THEN @ + 1 ELSE @]
          /\ i_last_error' = IF o = "200" THEN i_last_error ELSE ImageLastErrorOf(o)
          /\ IF o = "200"
             THEN /\ i_stats' = [i_stats EXCEPT !["downloaded"] = @ + 1]
                  /\ i_incs' = [i_incs EXCEPT ![i_cur] = Append(@, "downloaded")]
                  /\ i_cur' = i_cur + 1
                  /\ i_pc' = "loop"
             ELSE /\ i_pc' = IF ImageBreaks(o) THEN "fail" ELSE "attempt"
                  /\ UNCHANGED <<i_stats, i_incs, i_cur>>
    /\ UNCHANGED <<i_nimages, i_manifest, i_png, i_force, i_retries,
                   i_outcomes, i_interrupted, i_failures, i_attempt,
                   i_summary, i_exit, runVars, tVars, fVars, cVars, dVars, yVars>>

\* lines 153-156: the image is counted failed, its record is appended and
\* download_image returns False
IFail ==
    /\ IAlive
    /\ i_pc = "fail"
    /\ i_stats' = [i_stats EXCEPT !["failed"] = @ + 1]
    /\ i_incs' = [i_incs EXCEPT ![i_cur] = Append(@, "failed")]
    /\ i_failures' = Append(i_failures, [name |-> i_cur, error |-> i_last_error])
    /\ i_cur' = i_cur + 1
    /\ i_pc' = "loop"
    /\ UNCHANGED <<i_nimages, i_manifest, i_png, i_have, i_force, i_retries,
                   i_outcomes, i_interrupted, i_attempt, i_last_error,
                   i_history, i_writes, i_summary, i_exit, runVars, tVars,
                   fVars, cVars, dVars, yVars>>

\* lines 200-220 and 275-279: the summary is printed, main() returns and
\* the process ends with status 0
ISummary ==
    /\ IAlive
    /\ i_pc = "summary"
    /\ i_summary' = <<i_stats>>
    /\ i_pc' = "done"
    /\ i_exit' = <<0>>
    /\ UNCHANGED <<i_nimages, i_manifest, i_png, i_have, i_force, i_retries,
                   i_outcomes, i_interrupted, i_stats, i_failures, i_cur,
                   i_attempt, i_last_error, i_history, i_incs, i_writes,
                   runVars, tVars, fVars, cVars, dVars, yVars>>

\* lines 85, 87-93: the first SIGINT sets the flag, the second raises
\* SystemExit(1) in the main thread, which nothing catches
IInterrupt ==
    /\ IAlive
    /\ i_pc # "idle"
    /\ IF i_interrupted
       THEN /\ i_exit' = <<1>>
            /\ i_pc' = "exited"
            /\ UNCHANGED i_interrupted
       ELSE /\ i_interrupted' = TRUE
            /\ UNCHANGED <<i_exit, i_pc>>
    /\ UNCHANGED <<i_nimages, i_manifest, i_png, i_have, i_force, i_retries,
                   i_outcomes, i_stats, i_failures, i_cur, i_attempt,
                   i_last_error, i_history, i_incs, i_writes, i_summary,
                   runVars, tVars, fVars, cVars, dVars, yVars>>

NextI ==
    \/ IStart
    \/ ILoop
    \/ IAttempt
    \/ IRequest
    \/ IFail
    \/ ISummary
    \/ IInterrupt

(***************************************************************************)
(* SpecR: one file and every outcome of an attempt. Either TileDownloader  *)
(* runs on a single tile, or ImageDownloader runs on its manifest.         *)
(***************************************************************************)
InitR ==
    /\ InitRunIdle
    /\ InitTIdle
    /\ InitFIdle
    /\ InitCIdle
    /\ \/ /\ InitDRun
          /\ d_ntiles = 1
          /\ d_outcomes = AllOutcomes
          /\ InitIIdle
       \/ /\ InitDIdle
          /\ InitIRun
    /\ InitYIdle

NextR ==
    \/ NextD
    \/ NextI

SpecR == InitR /\ [][NextR]_vars

(***************************************************************************)
(* SpecK: the two downloaders on files that exist or not. TileDownloader   *)
(* runs on up to DlTiles tiles, or ImageDownloader on its manifest.        *)
(***************************************************************************)
InitK ==
    /\ InitRunIdle
    /\ InitTIdle
    /\ InitFIdle
    /\ InitCIdle
    /\ \/ /\ InitDRun
          /\ d_outcomes = RunOutcomes
          /\ InitIIdle
       \/ /\ InitDIdle
          /\ InitIRun
    /\ InitYIdle

SpecK == InitK /\ [][NextR]_vars

(***************************************************************************)
(* extract_images_wiki_gg.py: ImageScraper.fetch_file_page, called by      *)
(* process_file_pages (line 522) with retry_count = 0. The recursive call  *)
(* of line 419 is the same code entered again with retry_count + 1; its    *)
(* return value is passed on unchanged.                                    *)
(***************************************************************************)
Urls == {"File:A", "File:B"}

Hashes == {"h1", "h2"}

\* the text the server answers a 200 with
Pages == {"page1"}

\* a cache file: its text, and whether open/read (385-386) succeed on it
CacheFiles == [text : Pages \cup {"page0", ""}, readable : BOOLEAN]

\* what requests.get and the lines after it can come to: a response that
\* passes raise_for_status (with the outcome of saving it, 403-405), a
\* status raise_for_status raises HTTPError for, or another exception
WOutcomes ==
    {"200", "200-OpenError", "200-WriteError", "429", "404", "403", "500", "503",
     "Timeout", "ConnectionError", "RequestException"}

HttpErrors == {"429", "404", "403", "500", "503"}

\* line 415: if retry_count < 3
RateLimitRetries == 3

\* line 416: (2 ** retry_count) * 5
BackoffBase == 5

\* a backoff that does not grow
BackoffFlat(retry_count) == BackoffBase

backoff_time(retry_count) == (2 ^ retry_count) * BackoffBase

\* the retry that never gives up
RetriesLeftAlways == TRUE

RetriesLeft == w_retry_count < RateLimitRetries

\* lines 410-446: error_msg of the branch that returns (None, error_msg)
WErrorOf(o) ==
    CASE o = "429" -> "Rate limited (429) - max retries exceeded"
      [] o = "404" -> "Page not found (404)"
      [] o = "403" -> "Access forbidden (403)"
      [] o = "500" -> "Server error (500)"
      [] o = "503" -> "HTTP 503 error"
      [] o = "Timeout" -> "Request timeout (10s)"
      [] o = "ConnectionError" -> "Connection error"
      [] o = "RequestException" -> "Request error"
      [] o \in {"200-OpenError", "200-WriteError"} -> "Unexpected error"

\* lines 356-359
get_cache_path(url) == w_md5[url]

\* the cache is looked up whatever force_refresh says
UsesCacheAlways == TRUE

\* line 383: not self.force_refresh (and cache_path.exists())
UsesCache == ~w_force

\* the file open(cache_path, "w") and f.write(html) leave (404-405): the
\* page, or the file open() truncated when the write fails
Saved(o, page) == [text |-> IF o = "200" THEN page ELSE "", readable |-> TRUE]

\* lines 403-404: mkdir and open succeeded, the file is created or truncated
OpensCacheFile(o) == o \in {"200", "200-WriteError"}

InitWRun ==
    /\ w_md5 \in {f \in [Urls -> Hashes] : f["File:A"] = "h1"}
    /\ w_force \in BOOLEAN
    /\ w_cache \in [Hashes -> {<<>>} \cup {<<f>> : f \in {c \in CacheFiles : c.text = "page0"}}]
    /\ w_pc = "none"
    /\ w_url = ""
    /\ w_retry_count = 0
    /\ w_cur = <<>>
    /\ w_calls = <<>>
    /\ w_rate_limited = 0
    /\ w_warnings = <<>>

\* lines 106-131 and 679-687: a new ImageScraper on the same cache_dir
WNewScraper ==
    /\ w_pc = "none"
    /\ w_calls # <<>>
    /\ w_force' \in BOOLEAN
    /\ w_rate_limited' = 0
    /\ w_warnings' = <<>>
    /\ <<w_force', w_rate_limited', w_warnings'>> # <<w_force, w_rate_limited, w_warnings>>
    /\ UNCHANGED <<w_md5, w_cache, w_pc, w_url, w_retry_count, w_cur, w_calls,
                   oldVars, afterW>>

\* line 522: process_file_pages calls fetch_file_page(file_page_url)
WCall ==
    /\ w_pc = "none"
    /\ Len(w_calls) < MaxFetches
    /\ \E u \in Urls : w_url' = u
    /\ w_retry_count' = 0
    /\ w_cur' = [force |-> w_force, before |-> w_cache, rate0 |-> w_rate_limited,
                 warnings0 |-> Len(w_warnings), requests |-> <<>>, waits |-> 0,
                 sleeps |-> <<>>]
    /\ w_pc' = "entry"
    /\ UNCHANGED <<w_md5, w_force, w_cache, w_calls, w_rate_limited, w_warnings,
                   oldVars, afterW>>

\* the record of a call of line 522 that returns (content, error); content
\* and error are <<>> for None
Returned(content, error, cache) ==
    [url |-> w_url, force |-> w_cur.force, before |-> w_cur.before,
     requests |-> w_cur.requests, waits |-> w_cur.waits, sleeps |-> w_cur.sleeps,
     content |-> content, error |-> error, after |-> cache]

\* lines 380-391: a cache file that is there and can be read is returned; one
\* that cannot be read leaves a warning and the page is fetched
WCheckCache ==
    /\ w_pc = "entry"
    /\ LET file == w_cache[get_cache_path(w_url)]
       IN  IF UsesCache /\ file # <<>> /\ file[1].readable
           THEN /\ w_calls' = Append(w_calls, Returned(<<file[1].text>>, <<>>, w_cache))
                /\ w_pc' = "none"
                /\ UNCHANGED w_warnings
           ELSE /\ w_warnings' = IF UsesCache /\ file # <<>>
                                 THEN Append(w_warnings, "Failed to read cache")
                                 ELSE w_warnings
                /\ w_pc' = "wait"
                /\ UNCHANGED w_calls
    /\ UNCHANGED <<w_md5, w_force, w_cache, w_url, w_retry_count, w_cur,
                   w_rate_limited, oldVars, afterW>>

\* lines 394 and 361-367: rate_limit_wait
WRateLimitWait ==
    /\ w_pc = "wait"
    /\ w_cur' = [w_cur EXCEPT !.waits = @ + 1]
    /\ w_pc' = "request"
    /\ UNCHANGED <<w_md5, w_force, w_cache, w_url, w_retry_count, w_calls,
                   w_rate_limited, w_warnings, oldVars, afterW>>

\* lines 397-446: requests.get and the branch its outcome leads to. A page
\* is saved and returned; a 429 is counted and, while retries are left,
\* slept on and fetched again (413-419); every other outcome appends a
\* warning and returns (None, error_msg)
WRequest ==
    /\ w_pc = "request"
    /\ \E o \in WOutcomes, page \in Pages :
          LET call == [w_cur EXCEPT !.requests = Append(@, o)]
              h == get_cache_path(w_url)
              saved == IF OpensCacheFile(o)
                       THEN [w_cache EXCEPT ![h] = <<Saved(o, page)>>]
                       ELSE w_cache
          IN  /\ w_cache' = saved
              /\ w_rate_limited' = IF o = "429" THEN w_rate_limited + 1 ELSE w_rate_limited
              /\ IF o = "200"
                 THEN /\ w_calls' = Append(w_calls, [Returned(<<page>>, <<>>, saved)
                                                      EXCEPT !.requests = call.requests])
                      /\ w_pc' = "none"
                      /\ w_cur' = call
                      /\ UNCHANGED <<w_retry_count, w_warnings>>
                 ELSE IF o = "429" /\ RetriesLeft
                 THEN /\ w_cur' = [call EXCEPT !.sleeps = Append(@, backoff_time(w_retry_count))]
                      /\ w_retry_count' = w_retry_count + 1
                      /\ w_pc' = "entry"
                      /\ UNCHANGED <<w_calls, w_warnings>>
                 ELSE /\ w_warnings' = Append(w_warnings, WErrorOf(o))
                      /\ w_calls' = Append(w_calls, [Returned(<<>>, <<WErrorOf(o)>>, saved)
                                                      EXCEPT !.requests = call.requests])
                      /\ w_pc' = "none"
                      /\ w_cur' = call
                      /\ UNCHANGED w_retry_count
    /\ UNCHANGED <<w_md5, w_force, w_url, oldVars, afterW>>

NextW ==
    \/ WNewScraper
    \/ WCall
    \/ WCheckCache
    \/ WRateLimitWait
    \/ WRequest

InitW ==
    /\ InitRunIdle
    /\ InitTIdle
    /\ InitFIdle
    /\ InitCIdle
    /\ InitDIdle
    /\ InitIIdle
    /\ InitWRun
    /\ InitLIdle

SpecW == InitW /\ [][NextW]_vars

(***************************************************************************)
(* extract_images_from_html.py: main passes the gallery pages one by one   *)
(* to extract_items, which appends the entries of a page whose name is not *)
(* among the items it was given.                                           *)
(***************************************************************************)
ItemNames == {<<"a">>, <<"b">>}

ItemUrls == {"u1", "u2"}

\* the text of a galleryfilename link, as the page has it
BoxTexts == ItemNames \cup {<<" ", "a">>}

GalleryBoxes == [text : BoxTexts, href : ItemUrls]

Items == [name : ItemNames, url : ItemUrls]

\* line 52: .text.strip()
image_name(text) == Strip(text)

\* the keys of a dict built from a list of items
NamesOf(items) == {items[k].name : k \in DOMAIN items}

\* an entry is appended although its name is in the dict
NotInDictAlways(name) == TRUE

\* line 63
NotInDict(name) == name \notin e_dict

InitERun ==
    /\ e_pc = "main"
    /\ e_items \in SeqsUpTo(Items, MaxBoxes) \cup {<<>>}
    /\ e_boxes = <<>>
    /\ e_image_data = <<>>
    /\ e_dict = {}
    /\ e_k = 0
    /\ e_cur = <<>>
    /\ e_calls = <<>>

\* lines 78-80 and 44-48: main calls extract_items(items, filename); the
\* page read from the file has some gallery boxes
ECall ==
    /\ e_pc = "main"
    /\ Len(e_calls) < MaxPages
    /\ e_boxes' \in SeqsUpTo(GalleryBoxes, MaxBoxes) \cup {<<>>}
    /\ e_cur' = [current_items |-> e_items, gallery_boxes |-> e_boxes']
    /\ e_image_data' = <<>>
    /\ e_pc' = "boxes"
    /\ UNCHANGED <<e_items, e_dict, e_k, e_calls, oldVars, rVars, wVars, afterE>>

\* lines 51-57: one box of the page
EBox ==
    /\ e_pc = "boxes"
    /\ e_boxes # <<>>
    /\ e_image_data' = Append(e_image_data,
                              [name |-> image_name(Head(e_boxes).text),
                               url |-> Head(e_boxes).href])
    /\ e_boxes' = Tail(e_boxes)
    /\ UNCHANGED <<e_pc, e_items, e_dict, e_k, e_cur, e_calls,
                   oldVars, rVars, wVars, afterE>>

\* line 60: the dict of the items given, built once
EDict ==
    /\ e_pc = "boxes"
    /\ e_boxes = <<>>
    /\ e_dict' = NamesOf(e_items)
    /\ e_k' = 1
    /\ e_pc' = "merge"
    /\ UNCHANGED <<e_items, e_boxes, e_image_data, e_cur, e_calls,
                   oldVars, rVars, wVars, afterE>>

\* lines 62-64: one entry of image_data
EItem ==
    /\ e_pc = "merge"
    /\ e_k <= Len(e_image_data)
    /\ e_items' = IF NotInDict(e_image_data[e_k].name)
                  THEN Append(e_items, e_image_data[e_k])
                  ELSE e_items
    /\ e_k' = e_k + 1
    /\ UNCHANGED <<e_pc, e_boxes, e_image_data, e_dict, e_cur, e_calls,
                   oldVars, rVars, wVars, afterE>>

\* line 66 and line 80: the list is returned and becomes main's items
EReturn ==
    /\ e_pc = "merge"
    /\ e_k > Len(e_image_data)
    /\ e_calls' = Append(e_calls, [current_items |-> e_cur.current_items,
                                   gallery_boxes |-> e_cur.gallery_boxes,
                                   image_data |-> e_image_data,
                                   returned |-> e_items])
    /\ e_pc' = "main"
    /\ UNCHANGED <<e_items, e_boxes, e_image_data, e_dict, e_k, e_cur,
                   oldVars, rVars, wVars, afterE>>

NextE ==
    \/ ECall
    \/ EBox
    \/ EDict
    \/ EItem
    \/ EReturn

InitE ==
    /\ InitRunIdle
    /\ InitTIdle
    /\ InitFIdle
    /\ InitCIdle
    /\ InitDIdle
    /\ InitIIdle
    /\ InitWIdle
    /\ InitERun
    /\ InitGIdle
    /\ InitZIdle
    /\ InitUIdle

SpecE == InitE /\ [][NextE]_vars

(***************************************************************************)
(* ImageScraper.deduplicate_images: one pass over file_page_links that     *)
(* appends a pair when its filename has not been seen.                     *)
(***************************************************************************)
Filenames == {"A.png", "B.png"}

\* (filename, url) tuples
Links == Filenames \X Urls

\* every pair is appended
NotSeenAlways(filename) == TRUE

\* line 350: filename not in seen
NotSeen(filename) == filename \notin g_seen

InitGRun ==
    /\ g_pc = "loop"
    /\ g_links \in SeqsUpTo(Links, MaxLinks) \cup {<<>>}
    /\ g_seen = {}
    /\ g_unique = <<>>
    /\ g_k = 1
    /\ g_calls = <<>>

\* lines 349-352: one pair of file_page_links
GLink ==
    /\ g_pc = "loop"
    /\ g_k <= Len(g_links)
    /\ LET filename == g_links[g_k][1]
           url == g_links[g_k][2]
       IN  IF NotSeen(filename)
           THEN /\ g_seen' = g_seen \cup {filename}
                /\ g_unique' = Append(g_unique, <<filename, url>>)
           ELSE UNCHANGED <<g_seen, g_unique>>
    /\ g_k' = g_k + 1
    /\ UNCHANGED <<g_pc, g_links, g_calls, oldVars, rVars, wVars, afterG>>

\* line 354: return unique
GReturn ==
    /\ g_pc = "loop"
    /\ g_k > Len(g_links)
    /\ g_calls' = Append(g_calls, [file_page_links |-> g_links, unique |-> g_unique])
    /\ g_pc' = "returned"
    /\ UNCHANGED <<g_links, g_seen, g_unique, g_k, oldVars, rVars, wVars, afterG>>

\* lines 346-347: deduplicate_images is called with the list it returned
GCallOnOutput ==
    /\ g_pc = "returned"
    /\ Len(g_calls) < MaxDedups
    /\ g_links' = g_unique
    /\ g_seen' = {}
    /\ g_unique' = <<>>
    /\ g_k' = 1
    /\ g_pc' = "loop"
    /\ UNCHANGED <<g_calls, oldVars, rVars, wVars, afterG>>

NextG ==
    \/ GLink
    \/ GReturn
    \/ GCallOnOutput

InitG ==
    /\ InitRunIdle
    /\ InitTIdle
    /\ InitFIdle
    /\ InitCIdle
    /\ InitDIdle
    /\ InitIIdle
    /\ InitWIdle
    /\ InitEIdle
    /\ InitGRun
    /\ InitZIdle
    /\ InitUIdle

SpecG == InitG /\ [][NextG]_vars

(***************************************************************************)
(* TileDownloader.get_tile_urls, loop by loop.                             *)
(***************************************************************************)
\* the zoom levels tried: some below the smallest the map has
Zooms == (MinZoom - 4)..MaxZoom

InitZRun ==
    /\ z_pc = "call"
    /\ z_zoom \in Zooms
    /\ z_dimensions = 0
    /\ z_y = 0
    /\ z_x = 0
    /\ z_tiles = <<>>

\* lines 172-173: dimensions = self.get_dimensions(zoom), whose ValueError
\* leaves get_tile_urls; tiles = []
ZDimensions ==
    /\ z_pc = "call"
    /\ IF get_dimensions(z_zoom) = <<>>
       THEN /\ z_pc' = "raised"
            /\ UNCHANGED z_dimensions
       ELSE /\ z_dimensions' = get_dimensions(z_zoom)[1]
            /\ z_pc' = "loop"
    /\ UNCHANGED <<z_zoom, z_y, z_x, z_tiles, oldVars, rVars, wVars, afterZ>>

\* lines 175-180: one (x, y) of the two loops, x the inner one
ZTile ==
    /\ z_pc = "loop"
    /\ z_y < z_dimensions
    /\ z_tiles' = Append(z_tiles, [url |-> TileUrl(z_zoom, z_x, z_y),
                                   filename |-> TileFileName(z_zoom, z_x, z_y),
                                   x |-> z_x, y |-> z_y])
    /\ IF z_x + 1 < z_dimensions
       THEN z_x' = z_x + 1 /\ UNCHANGED z_y
       ELSE z_x' = 0 /\ z_y' = z_y + 1
    /\ UNCHANGED <<z_pc, z_zoom, z_dimensions, oldVars, rVars, wVars, afterZ>>

\* line 182: return tiles
ZReturn ==
    /\ z_pc = "loop"
    /\ z_y >= z_dimensions
    /\ z_pc' = "returned"
    /\ UNCHANGED <<z_zoom, z_dimensions, z_y, z_x, z_tiles, oldVars, rVars, wVars, afterZ>>

NextZ ==
    \/ ZDimensions
    \/ ZTile
    \/ ZReturn

InitZ ==
    /\ InitRunIdle
    /\ InitTIdle
    /\ InitFIdle
    /\ InitCIdle
    /\ InitDIdle
    /\ InitIIdle
    /\ InitWIdle
    /\ InitEIdle
    /\ InitGIdle
    /\ InitZRun
    /\ InitUIdle

SpecZ == InitZ /\ [][NextZ]_vars

(***************************************************************************)
(* test.py: UnionFind with path compression and union by rank.  A call of  *)
(* find or union runs to its end before the next one starts.               *)
(***************************************************************************)
\* the elements of the structure: range(n)
UElems == DOMAIN u_parent

\* lines 9-12: the parent list find(x) leaves and the value it returns; the
\* recursive call has compressed the path above x before line 11 assigns
RECURSIVE find(_, _)
find(parent, x) ==
    IF parent[x] # x
    THEN LET above == find(parent, parent[x])
             compressed == [above.parent EXCEPT ![x] = above.returned]
         IN  [parent |-> compressed, returned |-> compressed[x]]
    ELSE [parent |-> parent, returned |-> parent[x]]

\* the argument is hung under the other root, not its root
LinkedArgument(root, x) == x

\* lines 19, 21, 23: the element whose parent is assigned is a root
Linked(root, x) == root

\* lines 5-7
InitURun ==
    /\ u_pc = "ready"
    /\ \E n \in 1..UfSize :
          /\ u_parent = [x \in 0..(n - 1) |-> x]
          /\ u_rank = [x \in 0..(n - 1) |-> 0]
    /\ u_unions = {}
    /\ u_found = <<>>

\* lines 9-12, called from outside (line 39)
UFind ==
    /\ u_pc = "ready"
    /\ \E x \in UElems :
          /\ u_parent' = find(u_parent, x).parent
          /\ u_found' = <<x, find(u_parent, x).returned>>
    /\ UNCHANGED <<u_pc, u_rank, u_unions, oldVars, rVars, wVars, afterU>>

\* lines 14-24 (line 34)
UUnion ==
    /\ u_pc = "ready"
    /\ \E x, y \in UElems :
          LET first == find(u_parent, x)
              second == find(first.parent, y)
              root_x == first.returned
              root_y == second.returned
              parent == second.parent
          IN  /\ u_unions' = u_unions \cup {{x, y}}
              /\ IF root_x # root_y
                 THEN IF u_rank[root_x] > u_rank[root_y]
                      THEN /\ u_parent' = [parent EXCEPT ![Linked(root_y, y)] = root_x]
                           /\ UNCHANGED u_rank
                      ELSE IF u_rank[root_x] < u_rank[root_y]
                      THEN /\ u_parent' = [parent EXCEPT ![Linked(root_x, x)] = root_y]
                           /\ UNCHANGED u_rank
                      ELSE /\ u_parent' = [parent EXCEPT ![Linked(root_y, y)] = root_x]
                           /\ u_rank' = [u_rank EXCEPT ![root_x] = @ + 1]
                 ELSE /\ u_parent' = parent
                      /\ UNCHANGED u_rank
    /\ UNCHANGED <<u_pc, u_found, oldVars, rVars, wVars, afterU>>

NextU ==
    \/ UFind
    \/ UUnion

InitU ==
    /\ InitRunIdle
    /\ InitTIdle
    /\ InitFIdle
    /\ InitCIdle
    /\ InitDIdle
    /\ InitIIdle
    /\ InitWIdle
    /\ InitEIdle
    /\ InitGIdle
    /\ InitZIdle
    /\ InitURun

SpecU == InitU /\ [][NextU]_vars

(***************************************************************************)
(* Properties of the pixel transform, checked under SpecT.                 *)
(***************************************************************************)
\* the colour channels of a decoded pixel
RGBOf(p) == <<p[1], p[2], p[3]>>

Decodable(f) == f.mode # "corrupt"

\* indices of the pixels of file f whose colour is c, alpha ignored
MatchingIn(f, c) == {i \in DOMAIN Convert(f) : RGBOf(Convert(f)[i]) = c}

Calls == DOMAIN truns

\* C3: a clean_tile call that does not fail, on a tile with at least one
\* pixel of the target colour, leaves every such pixel (255,255,255,0) and
\* every other pixel as decoded from the input, reports "cleaned", and
\* reports as changed-pixel count the number of matching input pixels.
C3_TransformCleans ==
    \A k \in Calls :
        LET r == truns[k]
            m == MatchingIn(r.before, tbg)
        IN  (Decodable(r.before) /\ m # {} /\ r.status # "failed") =>
               /\ r.status = "cleaned"
               /\ r.pixels = Cardinality(m)
               /\ r.after.mode = "RGBA"
               /\ DOMAIN r.after.px = DOMAIN Convert(r.before)
               /\ \A i \in DOMAIN r.after.px :
                     r.after.px[i] = IF i \in m THEN <<255, 255, 255, 0>>
                                     ELSE Convert(r.before)[i]

\* a call that cleaned a tile holding a matching and a non-matching pixel,
\* decoded from a non-RGBA file
C3_Witness ==
    \E k \in Calls :
        /\ truns[k].status = "cleaned"
        /\ truns[k].before.mode = "RGB"
        /\ MatchingIn(truns[k].before, tbg) # {}
        /\ MatchingIn(truns[k].before, tbg) # DOMAIN truns[k].before.px

\* C4: a clean_tile call on a (decodable) tile with no pixel of the target
\* colour never calls save: the file on disk is the file as it was, and the
\* outcome is "skipped".
C4_NoMatchNoWrite ==
    \A k \in Calls :
        LET r == truns[k]
        IN  (Decodable(r.before) /\ MatchingIn(r.before, tbg) = {}) =>
               /\ r.status = "skipped"
               /\ r.wrote = FALSE
               /\ r.after = r.before

\* a skipped call on a file a save would have changed (an RGB file would
\* be rewritten as RGBA) and on a writable path
C4_Witness ==
    \E k \in Calls :
        /\ truns[k].status = "skipped"
        /\ truns[k].before.mode = "RGB"
        /\ truns[k].before.wr = "ok"

\* two calls on a tile that had a matching pixel, the first without error
TwoCalls ==
    /\ Len(truns) >= 2
    /\ Decodable(truns[1].before)
    /\ MatchingIn(truns[1].before, tbg) # {}
    /\ truns[1].status # "failed"

ErrorIn(r) == ~Decodable(r.before) \/ r.error # ""

\* C6 as claimed: cleaned iff a pixel matched, skipped iff none matched,
\* failed iff an error occurred.
C6_ClassifiedByMatch ==
    \A k \in Calls :
        LET r == truns[k]
            m == IF Decodable(r.before) THEN MatchingIn(r.before, tbg) ELSE {}
        IN  Decodable(r.before) =>
               /\ r.status = "cleaned" <=> m # {}
               /\ r.status = "skipped" <=> m = {}
               /\ r.status = "failed" <=> ErrorIn(r)

\* C6 as amended: failed iff the decode or the write raised; cleaned iff a
\* pixel matched and the write succeeded; skipped iff the tile decoded and no
\* pixel matched. Exactly one of the three holds.
C6_ClassifiedByMatchAndError ==
    \A k \in Calls :
        LET r == truns[k]
            m == IF Decodable(r.before) THEN MatchingIn(r.before, tbg) ELSE {}
        IN  /\ r.status \in {"cleaned", "skipped", "failed"}
            /\ r.status = "failed" <=>
                  (~Decodable(r.before) \/ (m # {} /\ r.before.wr # "ok"))
            /\ r.status = "failed" <=> ErrorIn(r)
            /\ r.status = "cleaned" <=>
                  (Decodable(r.before) /\ m # {} /\ r.before.wr = "ok")
            /\ r.status = "skipped" <=> (Decodable(r.before) /\ m = {})

\* a call that failed on a write error although a pixel matched
C6_Witness ==
    \E k \in Calls :
        /\ truns[k].status = "failed"
        /\ Decodable(truns[k].before)
        /\ MatchingIn(truns[k].before, tbg) # {}

(***************************************************************************)
(* Properties of a run, checked under Spec and FairSpec.                   *)
(***************************************************************************)
SummaryProduced == summary # <<>>

\* the number a summary line reports; a Failed line that is not printed
\* reports no failure
Reported(line) == IF line = <<>> THEN 0 ELSE line[1]

StatSum == stats["cleaned"] + stats["skipped"] + stats["failed"]

\* tiles whose clean_tile call incremented exactly the counter s, once
CountedAs(s) == {t \in Tiles : incs[t] = <<s>>}

\* C1: a tile that passed the entry check increments one counter, once
\* (none yet while it is in flight, exactly one when its call has returned),
\* a tile that did not pass it increments none, and each counter is the
\* number of tiles that incremented it.
C1_OneCounterPerTile ==
    /\ \A t \in Tiles :
          /\ Len(incs[t]) <= 1
          /\ \A i \in DOMAIN incs[t] : incs[t][i] \in StatNames
          /\ pc[t] = "done" => Len(incs[t]) = 1
          /\ ~Attempted(t) => incs[t] = <<>>
    /\ \A s \in StatNames : stats[s] = Cardinality(CountedAs(s))

\* a parallel interrupted run: one tile counted, one returned at the entry
\* check, after both were in flight
C1_Witness ==
    /\ parallel > 1
    /\ \E t, u \in Tiles : /\ pc[t] = "done" /\ Len(incs[t]) = 1
                           /\ pc[u] = "returned"
    /\ SummaryProduced

\* C2: at the summary the three counters add up to progress_counter, the
\* number of tiles attempted, which is at most the number discovered and
\* equal to it when no interrupt occurred; before that
\* cleaned + skipped + failed <= progress_counter <= total.
C2_SumProperty ==
    /\ StatSum <= progress_counter
    /\ progress_counter <= ntiles
    /\ SummaryProduced =>
          /\ summary[1].cleaned + summary[1].skipped + Reported(summary[1].failed)
                = progress_counter
          /\ StatSum = progress_counter
          /\ progress_counter = Cardinality({t \in Tiles : Attempted(t)})
          /\ ~interrupted => progress_counter = ntiles

\* a summary of an interrupted parallel run that attempted some, not all
C2_Witness ==
    /\ SummaryProduced
    /\ parallel > 1
    /\ 0 < progress_counter
    /\ progress_counter < ntiles
    /\ StatSum = progress_counter

\* C7: no two tiles of a run hold the same progress ordinal.
C7_UniqueOrdinals ==
    \A t, u \in Tiles :
        (t # u /\ ordinal[t] # 0 /\ ordinal[u] # 0) => ordinal[t] # ordinal[u]

\* two workers in clean_tile at the same time, both with an ordinal
C7_Witness ==
    /\ parallel > 1
    /\ \E t, u \in Tiles : /\ t # u
                           /\ pc[t] \in Running /\ pc[u] \in Running
                           /\ ordinal[t] # 0 /\ ordinal[u] # 0

\* what a sequential pass over tiles 1..n leaves: the loop of lines 248-251
\* with clean_tile replaced by its result on each file, in discovery order
RECURSIVE SeqRun(_, _)
SeqRun(fs, n) ==
    IF n = 0
    THEN [status |-> <<>>, file |-> <<>>, stats |-> [s \in StatNames |-> 0]]
    ELSE LET prev == SeqRun(fs, n - 1)
             r == CleanTile(fs[n], DEFAULT_BG_COLOR)
         IN  [status |-> Append(prev.status, r.status),
              file |-> Append(prev.file, r.file),
              stats |-> [prev.stats EXCEPT ![r.status] = @ + 1]]

\* C8: a run that reaches its summary without interrupt ends, whatever the
\* worker count and the completion order, with the per-tile outcomes, the
\* files and the totals of the sequential pass.
C8_ModeEquivalence ==
    (SummaryProduced /\ ~interrupted) =>
        LET seq == SeqRun(files0, ntiles)
        IN  /\ \A t \in Tiles : result[t].status = seq.status[t]
            /\ \A t \in Tiles : files[t] = seq.file[t]
            /\ stats = seq.stats
            /\ summary[1].cleaned = seq.stats["cleaned"]
            /\ summary[1].skipped = seq.stats["skipped"]
            /\ Reported(summary[1].failed) = seq.stats["failed"]

\* a parallel run finished with no interrupt in which the second tile got
\* its ordinal before the first and the outcomes are mixed
C8_Witness ==
    /\ SummaryProduced
    /\ ~interrupted
    /\ parallel > 1
    /\ ntiles >= 2
    /\ ordinal[2] < ordinal[1]
    /\ stats["cleaned"] > 0
    /\ stats["failed"] > 0

\* the tile the sequential loop is inside clean_tile for, past line 170
SeqInProgress(t) == parallel = 1 /\ pc[t] \in (Running \ {"check"})

\* C9: in sequential mode, once the flag is set, the tile in progress goes
\* on to completion (its thread can take its next step as long as the
\* process was not force-quit), and no tile that had not passed the entry
\* check is attempted: it gets no ordinal, no counter increment, no write.
C9_SequentialCancellation ==
    /\ [][ (parallel = 1 /\ interrupted) =>
              \A t \in Tiles :
                  ~Attempted(t) =>
                      /\ ~Attempted(t)'
                      /\ ordinal'[t] = 0 /\ incs'[t] = <<>> /\ writes'[t] = 0
                      /\ files'[t] = files0[t] ]_vars
    /\ [](\A t \in Tiles :
             (SeqInProgress(t) /\ interrupted /\ Alive) => ENABLED ProgramStep)

\* C9 without its progress part: after the flag is set no further tile
\* passes the entry check in sequential mode (this part holds)
SeqNoLaterTile ==
    [][ (parallel = 1 /\ interrupted) =>
           \A t \in Tiles : ~Attempted(t) => ~Attempted(t)' ]_vars

\* what "never processed" means for tile t across one step
StaysUnprocessed(t) ==
    /\ ~Attempted(t)'
    /\ ordinal'[t] = 0
    /\ incs'[t] = <<>>
    /\ writes'[t] = 0
    /\ files'[t] = files0[t]

\* at the summary of a parallel run every future is finished or cancelled,
\* every tile that passed the entry check is counted once, and a tile is
\* left out only after an interrupt
ParallelSummaryState ==
    (parallel > 1 /\ SummaryProduced) =>
        \A t \in Tiles :
            /\ pc[t] \in {"done", "returned", "dropped"}
            /\ pc[t] = "done" => Len(incs[t]) = 1
            /\ pc[t] # "done" => interrupted /\ ordinal[t] = 0 /\ incs[t] = <<>>

\* C10 as claimed, with "begun" read as "ordinal assigned": once the flag
\* is set, a tile without ordinal never gets one, and is never counted or
\* written.
C10_NoOrdinalAfterInterrupt ==
    /\ [][ (parallel > 1 /\ interrupted) =>
              \A t \in Tiles :
                  ordinal[t] = 0 =>
                      /\ ordinal'[t] = 0
                      /\ incs'[t] = <<>>
                      /\ writes'[t] = 0
                      /\ files'[t] = files0[t] ]_vars
    /\ []ParallelSummaryState

\* C10 as amended, with "begun" read as "passed the entry check of line
\* 170": once the flag is set, a tile that has not passed the check never
\* does (it is cancelled in the pool or returns at the check; no ordinal, no
\* increment, no write), and every tile that has passed it is eventually
\* counted once, unless a second interrupt force-quits the process.
C10_ParallelCancellation ==
    /\ [][ (parallel > 1 /\ interrupted) =>
              \A t \in Tiles : ~Attempted(t) => StaysUnprocessed(t) ]_vars
    /\ []ParallelSummaryState
    /\ \A t \in 1..NumTiles :
          (t \in Tiles /\ parallel > 1 /\ interrupted /\ Attempted(t))
             ~> (t \notin Tiles \/ ~Alive \/ (pc[t] = "done" /\ Len(incs[t]) = 1))

\* the summary of a parallel run after one interrupt: a tile that was in
\* flight is counted, a tile was cancelled in the pool, nothing force-quit
C10_Witness ==
    /\ parallel > 1
    /\ interrupted
    /\ SummaryProduced
    /\ \E t, u \in Tiles : /\ pc[t] = "done" /\ Len(incs[t]) = 1
                           /\ pc[u] = "dropped" /\ ordinal[u] = 0

(***************************************************************************)
(* Interrupt escalation (lines 121-127).                                   *)
(***************************************************************************)
\* a handler frame that found the flag set and has not yet called os._exit
ForceQuitPending == handler = "quit" /\ Alive

\* C11: the flag is never cleared; the step of the first interrupt changes
\* nothing but the flag (and enters the handler), so the process is still
\* running; a handler that found the flag set ends the process with status
\* 1 and no summary is produced by that step; and until it has done so the
\* process is never stuck: an interrupt received with the flag set always
\* leads on to the exit.
C11_InterruptEscalation ==
    /\ [][interrupted => interrupted']_vars
    /\ [][ (~interrupted /\ interrupted') =>
              /\ Alive'
              /\ handler' = "warn"
              /\ <<stats, failures, progress_counter, pc, files, summary, mainpc>>'
                    = <<stats, failures, progress_counter, pc, files, summary, mainpc>> ]_vars
    /\ [][ (ForceQuitPending /\ ~ForceQuitPending') =>
              /\ exit_status' = <<1>>
              /\ summary' = summary
              /\ pc' = pc ]_vars
    /\ [](ForceQuitPending => ENABLED ProgramStep)

\* C11 without its last part: the flag is monotone, a force quit that gets
\* the logger lock exits with 1 at once, and it can get the lock whenever
\* the main thread itself does not hold it (this part holds)
ForceQuitWhenUnblocked ==
    /\ [][interrupted => interrupted']_vars
    /\ [][ (ForceQuitPending /\ ~ForceQuitPending') =>
              /\ exit_status' = <<1>>
              /\ summary' = summary
              /\ pc' = pc ]_vars
    /\ [](ForceQuitPending /\ lock["log"] # "main" => ENABLED ProgramStep)

(***************************************************************************)
(* The summary and the exit status (lines 241-244, 277-294).               *)
(***************************************************************************)
\* tiles whose clean_tile call is queued in the pool or under way
Unfinished == {t \in Tiles : pc[t] \in Running \cup {"queued", "cancelled"}}

\* tiles whose clean_tile call ran to its end with outcome s
FinishedAs(s) == {t \in Tiles : pc[t] = "done" /\ result[t].status = s}

\* C12: once the summary has been produced no clean_tile call is queued or
\* under way, the counters are the numbers of tiles finished with each
\* outcome, the summary is what _print_summary would print now, and no step
\* changes a counter, the failure list, the progress counter or a file.
C12_SummaryAtQuiescence ==
    /\ [](SummaryProduced =>
             /\ Unfinished = {}
             /\ \A s \in StatNames : stats[s] = Cardinality(FinishedAs(s))
             /\ summary = <<SummaryOf>>)
    /\ [][ SummaryProduced =>
              /\ stats' = stats
              /\ failures' = failures
              /\ progress_counter' = progress_counter
              /\ files' = files
              /\ pc' = pc ]_vars

\* run() returned after an interrupted parallel run in which a tile was
\* processed to its end and another was not
C12_Witness ==
    /\ SummaryProduced
    /\ mainpc = "done"
    /\ parallel > 1
    /\ interrupted
    /\ \E t, u \in Tiles : /\ pc[t] = "done" /\ writes[t] = 1
                           /\ pc[u] # "done"

\* run() has returned through lines 242-244 (not through 220 or 226, and
\* the process was not force-quit)
RunReturnedAfterSummary == mainpc = "done" /\ SummaryProduced

\* C13: when run() has returned after the summary its value is 0 or 1, and
\* it is 0 exactly when the failed counter is zero, whether or not the run
\* was stopped by an interrupt.
C13_ExitStatus ==
    RunReturnedAfterSummary =>
        /\ exit_status \in {<<0>>, <<1>>}
        /\ exit_status = <<0>> <=> stats["failed"] = 0

\* a run stopped by an interrupt that returned 1 with one failed tile and
\* nothing else counted
C13_Witness ==
    /\ RunReturnedAfterSummary
    /\ interrupted
    /\ exit_status = <<1>>
    /\ stats["failed"] = 1
    /\ stats["cleaned"] + stats["skipped"] = 0
    /\ ntiles = 2

\* a complete run that returned 0 with no failed tile
C13_WitnessSuccess ==
    /\ RunReturnedAfterSummary
    /\ ~interrupted
    /\ exit_status = <<0>>
    /\ stats["cleaned"] + stats["skipped"] = ntiles

(***************************************************************************)
(* Per-tile errors (lines 202-207).                                        *)
(***************************************************************************)
\* processing file f with colour c raises: it cannot be decoded, or it has
\* a matching pixel and its path cannot be written
RaisesError(f, c) ==
    ~Decodable(f) \/ (MatchingIn(f, c) # {} /\ f.wr # "ok")

\* the outcome of clean_tile on tile t is known (line 194, 198 or 204 reached)
OutcomeKnown(t) == result[t].status # "none"

C14_WitnessAllFail ==
    /\ SummaryProduced
    /\ ~interrupted
    /\ parallel > 1
    /\ ntiles = 2
    /\ stats["failed"] = 2
    /\ progress_counter = 2

(***************************************************************************)
(* Discovery failure (lines 216-226).                                      *)
(***************************************************************************)
\* the root directory is missing or find_tiles() returns no path
DiscoveryFails == ~dirExists \/ ntiles = 0

\* positions of main() and run() up to the returns of lines 366, 220, 226
DiscoveryErrorPath ==
    {"args", "argerror", "argerrorP", "validate", "error", "errorP", "done", "exited"}

\* C15: when the directory is missing or holds no matching file, run()
\* never leaves the validation path: no tile is attempted, the three
\* counters and progress_counter stay zero, no failure is recorded, no
\* file is written, no summary is printed, and run() returns only after the
\* error message, with status 1.
C15_DiscoveryFailure ==
    DiscoveryFails =>
        /\ mainpc \in DiscoveryErrorPath
        /\ \A s \in StatNames : stats[s] = 0
        /\ progress_counter = 0
        /\ failures = <<>>
        /\ files = files0
        /\ \A t \in Tiles : ~Attempted(t) /\ writes[t] = 0
        /\ ~SummaryProduced
        /\ mainpc = "done" => exit_status = <<1>>

\* run() returned 1 for an existing directory with no matching file
C15_Witness ==
    /\ parallel >= 1
    /\ dirExists
    /\ ntiles = 0
    /\ mainpc = "done"
    /\ exit_status = <<1>>
    /\ ~interrupted

\* run() returned 1 for a missing directory
C15_WitnessMissing ==
    /\ parallel >= 1
    /\ ~dirExists
    /\ mainpc = "done"
    /\ exit_status = <<1>>

(***************************************************************************)
(* Failure records (lines 140-143, 202-207).                               *)
(***************************************************************************)
\* the positions in self.failures of the records of tile t
RecordsOf(t) == {i \in DOMAIN failures : failures[i].name = t}

\* C16: every failure record belongs to a tile whose outcome is failed and
\* carries that tile's error text, no tile has two records, a tile whose
\* call has returned with outcome failed has one, the number of records
\* never exceeds the failed counter, and at the summary the two are equal.
C16_FailureRecords ==
    /\ \A i \in DOMAIN failures :
          /\ failures[i].name \in Tiles
          /\ result[failures[i].name].status = "failed"
          /\ failures[i].error = result[failures[i].name].error
    /\ \A t \in Tiles :
          /\ Cardinality(RecordsOf(t)) <= 1
          /\ (pc[t] = "done" /\ result[t].status = "failed") =>
                Cardinality(RecordsOf(t)) = 1
    /\ Len(failures) <= stats["failed"]
    /\ SummaryProduced => Len(failures) = stats["failed"]

\* two workers failed their tiles; one record is appended, the other
\* worker has incremented the counter and not yet appended
C16_Witness ==
    /\ parallel > 1
    /\ stats["failed"] = 2
    /\ Len(failures) = 1
    /\ \E t \in Tiles : pc[t] = "fail"

\* a summary with two records, appended in the reverse of discovery order
C16_WitnessSummary ==
    /\ SummaryProduced
    /\ Len(failures) = 2
    /\ failures[1].name = 2
    /\ failures[2].name = 1

(***************************************************************************)
(* Content of the summary (lines 277-294), checked under SpecS.            *)
(***************************************************************************)
\* the first n elements of sequence q, all of q when it is shorter
FirstN(q, n) == [i \in 1..(IF Len(q) < n THEN Len(q) ELSE n) |-> q[i]]

\* the failure records and the count of the rest as the summary should
\* show them for the failure list fl
ListsFailures(sm, fl) ==
    /\ sm.failures = FirstN(fl, 10)
    /\ \A i \in DOMAIN sm.failures :
          sm.failures[i].name = fl[i].name /\ sm.failures[i].error = fl[i].error
    /\ Len(fl) > 10 => sm.more = <<Len(fl) - 10>>
    /\ Len(fl) <= 10 => sm.more = <<>>

\* C17 as claimed: the summary reports the total number of discovered
\* tiles, the three counts, the first min(10, F) failure records and, when
\* F > 10, the count F - 10 of the rest.
C17_SummaryWithTotal ==
    SummaryProduced =>
        /\ "total" \in DOMAIN summary[1]
        /\ summary[1].total = ntiles
        /\ summary[1].cleaned = stats["cleaned"]
        /\ summary[1].skipped = stats["skipped"]
        /\ Reported(summary[1].failed) = stats["failed"]
        /\ ListsFailures(summary[1], failures)

\* C17 as amended: the summary consists of the cleaned count, the skipped
\* count and, only when the failed counter is positive, the failed count,
\* the first min(10, F) failure records with name and error text and, when
\* F > 10, the count F - 10 of the rest; it has no line for the number of
\* discovered tiles.
C17_SummaryContent ==
    SummaryProduced =>
        /\ DOMAIN summary[1] = {"cleaned", "skipped", "failed", "failures", "more"}
        /\ summary[1].cleaned = stats["cleaned"]
        /\ summary[1].skipped = stats["skipped"]
        /\ summary[1].failed = IF stats["failed"] > 0 THEN <<stats["failed"]>> ELSE <<>>
        /\ ListsFailures(summary[1], failures)

\* a summary of 12 failures: 10 records listed and "2 more"
C17_Witness ==
    /\ SummaryProduced
    /\ Len(failures) = 12
    /\ Len(summary[1].failures) = 10
    /\ summary[1].more = <<2>>
    /\ summary[1].failed = <<12>>

\* a summary of a run without failure: no Failed line
C17_WitnessNoFailure ==
    /\ SummaryProduced
    /\ stats["failed"] = 0
    /\ summary[1].failed = <<>>
    /\ summary[1].cleaned = 1

(***************************************************************************)
(* Sequential order (lines 246-251).                                       *)
(***************************************************************************)
\* tile t has been handed to clean_tile
Started(t) == pc[t] # "new"

\* C18: with worker count 1 at most one clean_tile call is under way; a
\* tile is started only when every tile discovered before it has run to
\* its end, so the tiles started are the first k discovered, in that order;
\* and the tile that gets an ordinal is the i-th discovered and gets i.
C18_SequentialOrder ==
    /\ [](parallel = 1 =>
             /\ Cardinality(Busy) <= 1
             /\ \A t, u \in Tiles :
                   (t < u /\ Started(u)) => pc[t] = "done" /\ ordinal[t] = t
             /\ \A t \in Tiles : ordinal[t] # 0 => ordinal[t] = t
             /\ \A t \in Tiles : Attempted(t) =>
                   Cardinality({u \in Tiles : Attempted(u) /\ u <= t}) = t)
    /\ [][ parallel = 1 =>
              \A t \in Tiles :
                 (~Started(t) /\ Started(t)') =>
                     /\ \A u \in Tiles : u < t => pc[u] = "done"
                     /\ \A u \in Tiles : u > t => ~Started(u) ]_vars

\* the second tile of a sequential run is inside clean_tile with ordinal 2
\* after the first one has finished with ordinal 1
C18_Witness ==
    /\ parallel = 1
    /\ ntiles = 2
    /\ pc[1] = "done"
    /\ ordinal[1] = 1
    /\ pc[2] \in Running
    /\ ordinal[2] = 2

(***************************************************************************)
(* Discovery (lines 145-157), checked under SpecF.                         *)
(***************************************************************************)
\* the name ends in ".png": its last four characters are . p n g
HasPngName(f) ==
    LET n == Len(f.name)
    IN  /\ n >= 4
        /\ f.name[n - 3] = 46 /\ f.name[n - 2] = 112
        /\ f.name[n - 1] = 110 /\ f.name[n] = 103

\* the regular files of the tree, at any depth, with such a name
PngFiles == {f \in fsFiles : HasPngName(f)}

\* the full path of file f: input_dir, the directories down to f, its name
FullPath(f) == PathJoin(DirPath(f.dir), f.name)

\* a comes strictly before b in lexicographic order
RECURSIVE LexBefore(_, _)
LexBefore(a, b) ==
    IF b = <<>> THEN FALSE
    ELSE IF a = <<>> THEN TRUE
    ELSE IF Head(a) = Head(b) THEN LexBefore(Tail(a), Tail(b))
    ELSE Head(a) < Head(b)

\* C19: every list find_tiles returned holds exactly the full paths of the
\* regular files under input_dir, at any depth, whose name ends in ".png",
\* each once, in strictly ascending lexicographic order of the full path.
C19_FindTiles ==
    \A k \in DOMAIN freturned :
        LET r == freturned[k]
        IN  /\ {r[i] : i \in DOMAIN r} = {FullPath(f) : f \in PngFiles}
            /\ Len(r) = Cardinality(PngFiles)
            /\ \A i, j \in DOMAIN r : i < j => LexBefore(r[i], r[j])

\* a call returned two paths, one of a file two directories down, in an
\* order other than the order of the walk, from a tree that also holds a
\* directory named a.png
C19_Witness ==
    /\ freturned # <<>>
    /\ Len(freturned[1]) = 2
    /\ Len(tiles) = 2
    /\ tiles # freturned[1]
    /\ \E f \in PngFiles : Len(f.dir) = 2
    /\ << <<97, 46, 112, 110, 103>> >> \in fsDirs

\* a call left out a file whose name does not end in ".png"
C19_WitnessFiltered ==
    /\ freturned # <<>>
    /\ Len(freturned[1]) = 1
    /\ Cardinality(fsFiles) = 2

(***************************************************************************)
(* The worker count (lines 363-374, 235-239).                              *)
(***************************************************************************)
\* positions of main() on the path of lines 364-366
RejectedPath == {"args", "argerror", "argerrorP", "done", "exited"}

\* positions of run() inside _clean_parallel and the pool states of a tile
ParallelPositions == {"submit", "wait", "cancel", "shutdown"}
PoolStates == {"queued", "cancelled", "dropped"}

\* C20: with a worker count below 1 main() never gets past its check: run()
\* is not entered, so nothing is discovered, no tile is attempted, nothing
\* is counted, written or summarised, and main() returns 1; with worker
\* count 1 the tiles go through the sequential loop and never through the
\* pool; with a worker count above 1 they go through the pool and never
\* through the sequential loop.
C20_WorkerCount ==
    /\ [](parallel < 1 =>
             /\ mainpc \in RejectedPath
             /\ \A t \in Tiles : pc[t] = "new" /\ ordinal[t] = 0 /\ writes[t] = 0
             /\ \A s \in StatNames : stats[s] = 0
             /\ progress_counter = 0
             /\ files = files0
             /\ ~SummaryProduced
             /\ mainpc = "done" => exit_status = <<1>>)
    /\ [](parallel = 1 =>
             /\ mainpc \notin ParallelPositions
             /\ \A t \in Tiles : pc[t] \notin PoolStates)
    /\ [](parallel > 1 => mainpc # "loop")
    /\ [][ (mainpc = "args" /\ mainpc' = "validate") => parallel >= 1 ]_vars
    /\ [][ (mainpc = "headerP" /\ mainpc' \notin {"headerP", "exited"}) =>
              mainpc' = IF parallel = 1 THEN "loop" ELSE "submit" ]_vars

\* main() returned 1 for worker count 0 although the directory holds two
\* tiles
C20_Witness ==
    /\ parallel = 0
    /\ dirExists
    /\ ntiles = 2
    /\ mainpc = "done"
    /\ exit_status = <<1>>

\* worker count 1 inside the sequential loop
C20_WitnessSequential ==
    /\ parallel = 1
    /\ mainpc = "loop"
    /\ \E t \in Tiles : pc[t] \in Running

\* worker count MaxParallel with two workers inside clean_tile
C20_WitnessParallel ==
    /\ parallel = MaxParallel
    /\ mainpc = "wait"
    /\ Cardinality(Busy) = 2

(***************************************************************************)
(* Progress ordinals (lines 129-133, 170-174, 255-259).                    *)
(***************************************************************************)
\* the tiles that have been handed an ordinal, and the ordinals handed out
WithOrdinal == {t \in Tiles : ordinal[t] # 0}
OrdinalsOut == {ordinal[t] : t \in WithOrdinal}

\* tiles that passed the entry check and have not yet left
\* _increment_progress
TakingOrdinal == {t \in Tiles : pc[t] \in {"prog", "prog2"}}

\* C21: at every moment the ordinals handed out are exactly 1..k, k being
\* the number of tiles that have taken one, k is progress_counter and at
\* most the number of discovered tiles; a tile takes its ordinal inside
\* clean_tile, after the interrupted check: a tile that is not yet
\* submitted, is queued, was cancelled, or returned at the check holds none,
\* and every tile past the check holds one as soon as it has left
\* _increment_progress.
C21_OrdinalsContiguous ==
    /\ OrdinalsOut = 1..Cardinality(WithOrdinal)
    /\ Cardinality(WithOrdinal) = progress_counter
    /\ progress_counter <= ntiles
    /\ \A t \in Tiles :
          pc[t] \in {"new", "queued", "cancelled", "dropped", "check", "returned"}
             => ordinal[t] = 0
    /\ \A t \in Tiles : Attempted(t) => (ordinal[t] # 0 <=> t \notin TakingOrdinal)

\* a parallel interrupted run at its summary: every tile was submitted,
\* one took ordinal 1, the other returned at the check or was cancelled
\* and took none
C21_Witness ==
    /\ parallel > 1
    /\ ntiles = 2
    /\ SummaryProduced
    /\ progress_counter = 1
    /\ OrdinalsOut = {1}
    /\ \E t \in Tiles : pc[t] \in {"returned", "dropped"} /\ ordinal[t] = 0

\* a tile queued in the pool without ordinal while another tile took 1
C21_WitnessQueued ==
    /\ parallel > 1
    /\ \E t, u \in Tiles : pc[t] = "queued" /\ ordinal[t] = 0 /\ ordinal[u] = 1

(***************************************************************************)
(* Mutual exclusion on the aggregates (lines 129-143).                     *)
(***************************************************************************)
\* the tiles whose thread is inside the read-modify-write guarded by lock l
InsideCritical(l) ==
    {t \in Tiles : pc[t] = (CASE l = "progress" -> "prog2"
                              [] l = "stats" -> "stat2"
                              [] l = "failures" -> "fail2")}

\* tiles whose call is past _increment_progress, past _increment_stat, and
\* past _add_failure
PastProgress == {t \in Tiles : Attempted(t) /\ pc[t] \notin {"prog", "prog2"}}
PastStat == {t \in Tiles : pc[t] \in {"fail", "fail2", "done"}}
PastFailure == {t \in Tiles : pc[t] = "done" /\ result[t].status = "failed"}

\* C22: at most one thread is inside the read-modify-write of the progress
\* counter, of the statistics and of the failure list, and it holds the
\* lock of that aggregate; no update is lost: the progress counter is the
\* number of calls past _increment_progress, the three counters add up to
\* the number of calls past _increment_stat, and the failure list holds one
\* record for each call past _add_failure.
C22_MutualExclusion ==
    /\ \A l \in {"progress", "stats", "failures"} :
          /\ Cardinality(InsideCritical(l)) <= 1
          /\ InsideCritical(l) # {} <=> lock[l] # "free"
    /\ progress_counter = Cardinality(PastProgress)
    /\ StatSum = Cardinality(PastStat)
    /\ Len(failures) = Cardinality(PastFailure)
    /\ \A t \in PastFailure : \E i \in DOMAIN failures : failures[i].name = t

\* a worker is inside _add_failure holding failures_lock while another
\* worker waits to enter it
C22_Witness ==
    /\ parallel > 1
    /\ lock["failures"] = "worker"
    /\ \E t, u \in Tiles : pc[t] = "fail2" /\ pc[u] = "fail"

\* the same for the statistics counters
C22_WitnessStats ==
    /\ parallel > 1
    /\ lock["stats"] = "worker"
    /\ \E t, u \in Tiles : pc[t] = "stat2" /\ pc[u] = "stat"

(***************************************************************************)
(* Ownership of a tile (lines 253-259).                                    *)
(***************************************************************************)
\* how far the call for a tile has come; a call only ever moves forward
Stage(p) ==
    CASE p = "new" -> 0
      [] p = "queued" -> 1
      [] p \in {"cancelled", "check"} -> 2
      [] p = "prog" -> 3
      [] p = "prog2" -> 4
      [] p = "work" -> 5
      [] p = "log" -> 6
      [] p = "logged" -> 7
      [] p = "stat" -> 8
      [] p = "stat2" -> 9
      [] p = "fail" -> 10
      [] p = "fail2" -> 11
      [] p \in {"done", "returned", "dropped"} -> 12

\* C23: the calls under way at the same time work on different paths; a
\* tile is handed over (submitted to the pool, or called by the loop) only
\* from the state "not yet handed over", its call only moves forward and so
\* runs at most once, its file is saved at most once and it is counted at
\* most once; and once _clean_parallel waits for the futures every
\* discovered tile has been submitted.
C23_ExclusiveOwnership ==
    /\ [](\A t, u \in Tiles :
             (t # u /\ pc[t] \in Running /\ pc[u] \in Running) => PathOf(t) # PathOf(u))
    /\ [](\A t \in Tiles : writes[t] <= 1 /\ Len(incs[t]) <= 1)
    /\ []((parallel > 1 /\ mainpc \in {"wait", "cancel", "shutdown", "summary"}) =>
             \A t \in Tiles : pc[t] # "new")
    /\ [][ \A t \in Tiles :
              pc'[t] # pc[t] =>
                  /\ Stage(pc'[t]) > Stage(pc[t])
                  /\ pc'[t] \in {"queued", "check"} =>
                        pc[t] = (IF parallel > 1 /\ pc'[t] = "check" THEN "queued" ELSE "new") ]_vars

\* two workers are decoding and scanning their tiles at the same time
C23_Witness ==
    /\ parallel > 1
    /\ ntiles = 2
    /\ pc[1] = "work"
    /\ pc[2] = "work"
    /\ PathOf(1) # PathOf(2)

(***************************************************************************)
(* Frame of clean_tile (lines 176-207).                                    *)
(***************************************************************************)
\* the step is the decode-scan-save part of the call for tile t
WorkStep(t) == pc[t] = "work" /\ pc'[t] = "log"

C25_BoundedPool ==
    /\ parallel > 1 => Cardinality(Busy) <= parallel
    /\ parallel = 1 => Cardinality(Busy) <= 1

\* every worker of the pool is inside clean_tile and a submitted tile
\* waits in the queue for a worker
C25_Witness ==
    /\ parallel > 1
    /\ Cardinality(Busy) = parallel
    /\ \E t \in Tiles : pc[t] = "queued"
    /\ mainpc = "wait"

(***************************************************************************)
(* Termination (lines 246-275).                                            *)
(***************************************************************************)
\* run() is under way after a successful discovery and at most one
\* interrupt has arrived (a second one would have entered the force quit)
RunUnderWay ==
    /\ Alive
    /\ mainpc \notin {"args", "argerror", "argerrorP", "validate", "error", "errorP",
                      "done", "exited"}
    /\ handler # "quit"

TerminatesUninterrupted ==
    []~interrupted => <>(/\ mainpc \in {"done", "exited"}
                         /\ (DiscoveryOk /\ ValidParallel /\ mainpc = "done") => SummaryProduced)

\* C27: all calls of find_tiles on the same tree return the same list, in
\* the same order, whatever the orders in which os.walk listed the
\* directories during each call.
C27_DiscoveryDeterminism ==
    \A i, j \in DOMAIN freturned : freturned[i] = freturned[j]

\* two calls that met the same two paths in opposite orders
C27_Witness ==
    /\ Len(freturned) >= 2
    /\ Len(fwalks[1]) = 2
    /\ fwalks[2] = <<fwalks[1][2], fwalks[1][1]>>
    /\ freturned[1] = fwalks[1]

\* the decimal digits of n >= 0, most significant first, no leading zero
RECURSIVE Decimal(_)
Decimal(n) ==
    LET last == CHOOSE c \in DOMAIN DigitValue : DigitValue[c] = n % 10
    IN  IF n < 10 THEN <<last>> ELSE Append(Decimal(n \div 10), last)

RECURSIVE WithoutLeadingZeros(_)
WithoutLeadingZeros(d) ==
    IF Len(d) > 1 /\ d[1] = "0" THEN WithoutLeadingZeros(Tail(d)) ELSE d

\* p[lo..hi] is an integer literal with blanks around it: an optional sign,
\* then digits that may be separated by single underscores
IsLiteralAt(p, lo, hi) ==
    /\ lo <= hi
    /\ \A i \in 1..(lo - 1) : p[i] = " "
    /\ \A i \in (hi + 1)..Len(p) : p[i] = " "
    /\ LET first == IF p[lo] \in {"+", "-"} THEN lo + 1 ELSE lo
           body == SubSeq(p, first, hi)
       IN  /\ first <= hi
           /\ IsDigit(body[1])
           /\ IsDigit(body[Len(body)])
           /\ \A i \in 2..Len(body) :
                 IsDigit(body[i]) \/ (body[i] = "_" /\ IsDigit(body[i - 1]))

\* the literal p[lo..hi] writes the integer n
LiteralDenotes(p, lo, hi, n) ==
    LET first == IF p[lo] \in {"+", "-"} THEN lo + 1 ELSE lo
    IN  /\ WithoutLeadingZeros(SelectSeq(SubSeq(p, first, hi), IsDigit))
              = Decimal(IF n < 0 THEN 0 - n ELSE n)
        /\ p[lo] = "-" => n <= 0
        /\ p[lo] # "-" => n >= 0

\* p is a text of the integer n
IsIntegerText(p, n) ==
    \E lo, hi \in 1..Len(p) : IsLiteralAt(p, lo, hi) /\ LiteralDenotes(p, lo, hi, n)

\* p is a text of some integer of 0..255
IsByteText(p) ==
    \E lo, hi \in 1..Len(p) :
        IsLiteralAt(p, lo, hi) /\ \E n \in 0..255 : LiteralDenotes(p, lo, hi, n)

\* s is three integer texts separated by two commas, denoting the tuple c
IsColorText(s, c) ==
    \E i, j \in 1..Len(s) :
        /\ i < j
        /\ \A k \in 1..Len(s) : s[k] = "," <=> k \in {i, j}
        /\ IsIntegerText(SubSeq(s, 1, i - 1), c[1])
        /\ IsIntegerText(SubSeq(s, i + 1, j - 1), c[2])
        /\ IsIntegerText(SubSeq(s, j + 1, Len(s)), c[3])

\* s is three comma-separated integers, each of them in 0..255
IsValidColorText(s) ==
    \E i, j \in 1..Len(s) :
        /\ i < j
        /\ \A k \in 1..Len(s) : s[k] = "," <=> k \in {i, j}
        /\ IsByteText(SubSeq(s, 1, i - 1))
        /\ IsByteText(SubSeq(s, i + 1, j - 1))
        /\ IsByteText(SubSeq(s, j + 1, Len(s)))

\* C28: parse_color accepts exactly the texts of three comma-separated
\* integers in 0..255 and hands the three values, in order, to the run as the
\* target colour; any other text ends in an argument error: the process
\* exits with argparse's status and no run starts.
C28_ParseColor ==
    /\ cpc \in {"parsed", "run"} =>
          /\ Len(args_color) = 3
          /\ \A k \in 1..3 : args_color[k] \in 0..255
          /\ IsColorText(color_str, args_color)
          /\ cexit = <<>>
    /\ cpc \in {"argerror", "exited"} => args_color = <<>>
    /\ cpc = "exited" => cexit = <<2>>
    /\ cpc \in {"parsed", "run"} <=> (cpc \notin {"idle", "args"} /\ IsValidColorText(color_str))

\* "0,25,0" was accepted and the run started with (0, 25, 0)
C28_Witness ==
    /\ cpc = "run"
    /\ color_str = <<"0", ",", "2", "5", ",", "0">>
    /\ args_color = <<0, 25, 0>>

\* a text int() accepts beyond plain digits, such as "0, +5,0" or "0,0_5,0"
C28_WitnessSigned ==
    /\ cpc = "run"
    /\ \E i \in 1..Len(color_str) : color_str[i] \in {"+", "_", " "}
    /\ args_color[2] = 5

\* "255,256,255" was rejected: a component above 255
C28_WitnessRejected ==
    /\ cpc = "exited"
    /\ color_str = <<"2", "5", "5", ",", "2", "5", "6", ",", "2", "5", "5">>

\* "0,255" was rejected: two components
C28_WitnessTwoParts ==
    /\ cpc = "exited"
    /\ color_str = <<"0", ",", "2", "5", "5">>

\* "0,-2,0" was rejected: a component below 0
C28_WitnessNegative ==
    /\ cpc = "exited"
    /\ color_str = <<"0", ",", "-", "2", ",", "0">>

(***************************************************************************)
(* Properties of TileDownloader, checked under SpecD.                       *)
(***************************************************************************)
DSummaryProduced == d_summary # <<>>

\* the tiles the summary counts, over its three lines
DSummarySum ==
    d_summary[1].downloaded + d_summary[1].skipped + Reported(d_summary[1].failed)

\* tiles that were assigned a progress ordinal
DWithOrdinal == {t \in DTiles : d_ordinal[t] > 0}

\* tiles whose download_tile call took an ordinal and then returned at
\* line 257 without counting the tile
Abandoned == {t \in DTiles : d_ordinal[t] > 0 /\ d_pc[t] = "returned"}

\* C29: when the summary is produced, every tile that was assigned a
\* progress ordinal has been counted in exactly one of downloaded, skipped,
\* failed, and the three counts of the summary add up to progress_counter.
C29_Accounting ==
    DSummaryProduced =>
        /\ \A t \in DWithOrdinal :
              Len(d_incs[t]) = 1 /\ d_incs[t][1] \in DStatNames
        /\ DSummarySum = d_progress_counter

\* what the code keeps: the tiles with an ordinal that the summary does not
\* count are those download_tile abandoned at line 257, all in interrupted runs
AccountingUpToAbandoned ==
    DSummaryProduced =>
        /\ \A t \in DWithOrdinal \ Abandoned : Len(d_incs[t]) = 1
        /\ \A t \in Abandoned : d_incs[t] = <<>>
        /\ DSummarySum + Cardinality(Abandoned) = d_progress_counter
        /\ Abandoned # {} => d_interrupted

\* a summary of a run in which tiles were counted in two different ways
AccountingReached ==
    /\ DSummaryProduced
    /\ DSummarySum = 2
    /\ d_summary[1].downloaded = 1
    /\ Abandoned = {}

(***************************************************************************)
(* Properties of the retry loops, checked under SpecR.                      *)
(***************************************************************************)
\* the outcomes after which no further attempt is allowed: a 404, a 403 and
\* a file write error
NotRetried == {"404", "403", "200-OpenError", "200-WriteError"}

\* the attempts h made for one file respect the retry rule: at most
\* `retries` requests, and nothing follows a 200 or an outcome not retried
RetryRule(h, retries) ==
    /\ Len(h) <= retries
    /\ \A k \in 1..(Len(h) - 1) : h[k] \notin NotRetried \cup {"200"}

LastOf(h) == h[Len(h)]

\* the attempts h are over without success: one was not to be retried, or
\* all `retries` attempts were used
GaveUp(h, retries) ==
    \/ h # <<>> /\ LastOf(h) \in NotRetried
    \/ Len(h) = retries /\ (h = <<>> \/ LastOf(h) # "200")

\* the failure records kept for file n
FailureRecords(fl, n) == {k \in DOMAIN fl : fl[k].name = n}

\* file n was counted failed, once, and its one record holds the error e
FailedOnce(counted, fl, n, e) ==
    /\ counted = <<"failed">>
    /\ Cardinality(FailureRecords(fl, n)) = 1
    /\ \A k \in FailureRecords(fl, n) : fl[k].error = e

\* download_tile was entered for tile t and has returned
TileCallReturned(t) ==
    /\ d_status[t] # "skipped"
    /\ d_ordinal[t] > 0
    /\ d_pc[t] \in {"done", "returned"}

TileRetryRule(t) ==
    LET h == d_history[t]
    IN  /\ RetryRule(h, d_retries)
        /\ Len(d_incs[t]) <= 1
        /\ (h # <<>> /\ LastOf(h) = "200") =>
              /\ d_writes[t] >= 1
              /\ tile_exists(t)
              /\ FailureRecords(d_failures, t) = {}
              /\ TileCallReturned(t) => d_incs[t] = <<"downloaded">>
        /\ (h # <<>> /\ LastOf(h) \in NotRetried) =>
              /\ d_pc[t] # "returned"
              /\ d_incs[t] \in {<<>>, <<"failed">>}
        /\ (GaveUp(h, d_retries) /\ TileCallReturned(t)) =>
              FailedOnce(d_incs[t], d_failures, t,
                         IF h = <<>> THEN "None" ELSE LastErrorOf(LastOf(h)))

\* download_image was called for image k and has returned
ImageCallReturned(k) ==
    /\ i_cur > k
    /\ \/ i_history[k] # <<>>
       \/ i_png[k] /\ (i_force \/ k \notin i_have)

ImageRetryRule(k) ==
    LET h == i_history[k]
    IN  /\ RetryRule(h, i_retries)
        /\ Len(i_incs[k]) <= 1
        /\ (h # <<>> /\ LastOf(h) = "200") =>
              /\ i_writes[k] >= 1
              /\ k \in i_have
              /\ FailureRecords(i_failures, k) = {}
              /\ i_incs[k] = <<"downloaded">>
              /\ i_cur > k
        /\ (h # <<>> /\ LastOf(h) \in NotRetried) =>
              i_incs[k] \in {<<>>, <<"failed">>}
        /\ (GaveUp(h, i_retries) /\ ImageCallReturned(k)) =>
              FailedOnce(i_incs[k], i_failures, k,
                         IF h = <<>> THEN "None" ELSE ImageLastErrorOf(LastOf(h)))

\* C30: download_tile and download_image make at most `retries` requests
\* for one file; nothing is requested again after a 404, a 403 or a file
\* write error, and the file is counted failed; a 200 writes the file,
\* counts it downloaded and ends the attempts; once the attempts are used
\* up the file is counted failed once, its record holding the error of the
\* last attempt.
C30_RetryBound ==
    /\ \A t \in DTiles : TileRetryRule(t)
    /\ \A k \in Images : ImageRetryRule(k)

\* a tile was tried twice, the second answer was a 404, and it was counted
\* failed with that error
C30_Witness ==
    /\ d_ntiles = 1
    /\ d_history[1] = <<"5xx", "404">>
    /\ d_pc[1] = "done"
    /\ d_failures = <<[name |-> 1, error |-> LastErrorOf("404")]>>

\* an image used up both attempts without success
C30_WitnessExhausted ==
    /\ i_nimages >= 1
    /\ i_retries = 2
    /\ i_history[1] = <<"Timeout", "3xx">>
    /\ i_cur > 1
    /\ i_failures = <<[name |-> 1, error |-> ImageLastErrorOf("3xx")]>>

\* an image was downloaded at the second attempt, after a 429
C30_WitnessRetried ==
    /\ i_nimages >= 1
    /\ i_history[1] = <<"429", "200">>
    /\ i_stats["downloaded"] = 1

\* a tile whose file could not be written was counted failed at once,
\* with an attempt left
C30_WitnessWriteError ==
    /\ d_ntiles = 1
    /\ d_retries = 2
    /\ d_history[1] = <<"200-WriteError">>
    /\ d_pc[1] = "done"
    /\ d_stats["failed"] = 1

(***************************************************************************)
(* C31                                                                     *)
(***************************************************************************)
\* the filter loop of run() (345-356) has looked at tile t: it is behind the
\* loop index, or the loop ran to its end without a break
TileExamined(t) ==
    \/ d_mainpc = "filter" /\ t < d_cur
    \/ d_mainpc \notin {"idle", "header", "headerP", "filter"} /\ ~d_interrupted

\* the tiles handed to _download_sequential or _download_parallel
Submitted == {d_todo[k] : k \in 1..Len(d_todo)}

\* a tile that had a file when a run without force started
TileKept(t) ==
    /\ d_history[t] = <<>>
    /\ d_writes[t] = 0
    /\ t \notin Submitted
    /\ d_incs[t] \in {<<>>, <<"skipped">>}
    /\ TileExamined(t) => d_status[t] = "skipped"
    /\ d_pc[t] = "done" <=> d_incs[t] = <<"skipped">>

\* every other tile
TileWanted(t) ==
    /\ d_status[t] # "skipped"
    /\ "skipped" \notin {d_incs[t][k] : k \in DOMAIN d_incs[t]}
    /\ TileExamined(t) => t \in Submitted

\* the loop of ImageDownloader.run has dealt with every image before i_cur
ImageKept(k) ==
    /\ i_history[k] = <<>>
    /\ i_writes[k] = 0
    /\ i_incs[k] = IF k < i_cur THEN <<"skipped">> ELSE <<>>

ImageWanted(k) ==
    /\ k < i_cur => i_incs[k] \in {<<"downloaded">>, <<"failed">>}
    /\ k < i_cur /\ i_retries > 0 => i_history[k] # <<>>

\* C31: without force a tile whose flat or organized file existed when the
\* run started is never requested, never written and never handed to the
\* download, and the filter loop counts it skipped (once its skip branch is
\* through it is counted skipped and nothing else; a run that filtered
\* without interruption prints their number as Skipped); with force, and
\* for a tile without a file, the filter loop hands every tile it looks at
\* to the download and counts none skipped. ImageDownloader does the same
\* for the .png names of its manifest.
C31_SkipIfExists ==
    /\ \A t \in DTiles :
          IF ~d_force /\ t \in d_had THEN TileKept(t) ELSE TileWanted(t)
    /\ DSummaryProduced /\ ~d_interrupted /\ ~d_force =>
          d_summary[1].skipped = Cardinality(d_had)
    /\ DSummaryProduced /\ ~d_interrupted /\ d_force =>
          /\ d_summary[1].skipped = 0
          /\ d_todo = [k \in 1..d_ntiles |-> k]
    /\ \A k \in Images :
          i_png[k] =>
             IF ~i_force /\ k \in i_had THEN ImageKept(k) ELSE ImageWanted(k)

\* a run without force counted an existing tile skipped and requested another
C31_Witness ==
    \E t, u \in DTiles :
       /\ ~d_force
       /\ t \in d_had
       /\ d_incs[t] = <<"skipped">>
       /\ u \notin d_had
       /\ d_history[u] # <<>>
       /\ DSummaryProduced

\* a run with force wrote an existing tile again
C31_WitnessForce ==
    \E t \in DTiles :
       /\ d_force
       /\ t \in d_had
       /\ d_writes[t] = 1
       /\ DSummaryProduced
       /\ d_summary[1].downloaded = d_ntiles

\* ImageDownloader skipped an existing image and requested a missing one
C31_WitnessImage ==
    \E k, j \in Images :
       /\ ~i_force
       /\ i_png[k] /\ k \in i_had /\ i_incs[k] = <<"skipped">>
       /\ i_png[j] /\ j \notin i_had /\ i_history[j] # <<>>

(***************************************************************************)
(* C32                                                                     *)
(***************************************************************************)
\* C32: a tile a run wrote after a 200 response has a file from then on,
\* flat or organized, whatever the run went on to do; the following run
\* finds it when it starts, and without force never requests it, never
\* writes it, never hands it to the download and counts it skipped when
\* its filter loop comes to it.
C32_Resumable ==
    /\ \A t \in Got : tile_exists(t)
    /\ d_got \subseteq d_had
    /\ d_run > 1 /\ ~d_force => \A t \in d_got : TileKept(t)

\* the run before downloaded the tile and organized it; this run skipped it
C32_Witness ==
    \E t \in d_got :
       /\ d_run = 2
       /\ ~d_force
       /\ get_organized_path(FileNameOf[t]) \in d_org
       /\ FileNameOf[t] \notin d_flat
       /\ d_incs[t] = <<"skipped">>

\* the run before downloaded the tile and was interrupted before it
\* organized; this run skipped the flat file
C32_WitnessInterrupted ==
    \E t \in d_got :
       /\ d_run = 2
       /\ ~d_force
       /\ FileNameOf[t] \in d_flat
       /\ d_incs[t] = <<"skipped">>
       /\ DSummaryProduced

(***************************************************************************)
(* C33                                                                     *)
(***************************************************************************)
\* positions of run() inside organize_tiles (lines 373, 418-461)
Organizing ==
    d_mainpc \in {"organize", "organizeP", "listdir", "orgloop", "orgmove",
                  "noflat", "noflatP", "orgdone", "orgdoneP"}

\* no download_tile call is running or waiting in the pool
DownloadsFinished == \A t \in DTiles : d_pc[t] \notin DRunning \cup {"queued", "cancelled"}

\* a step of organize_tiles that renames a file
FileMoved == d_org' # d_org \/ d_flat' # d_flat

\* C33 as stated: tiles are organized only after all downloads finished and
\* the summary was printed, organize_tiles is entered only with the flag
\* unset, and with the flag set no file is moved
C33_OrganizeLast ==
    /\ [](Organizing => DSummaryProduced /\ DownloadsFinished)
    /\ [][(~Organizing /\ Organizing') => ~d_interrupted]_vars
    /\ [][(Organizing /\ FileMoved) => ~d_interrupted]_vars

\* C33, amended: tiles are organized only after all downloads finished and
\* the summary was printed, and organize_tiles is entered only with the
\* flag unset; every file is moved in an iteration that found the flag
\* unset at its head (line 446), so after the flag is set at most the file
\* of the iteration under way is moved, and none once that iteration ended
C33_OrganizeLastAmended ==
    /\ [](Organizing => DSummaryProduced /\ DownloadsFinished)
    /\ [][(~Organizing /\ Organizing') => ~d_interrupted]_vars
    /\ [][(Organizing /\ FileMoved) => d_mainpc = "orgmove"]_vars
    /\ [][(d_mainpc # "orgmove" /\ d_mainpc' = "orgmove") => ~d_interrupted]_vars
    /\ [][(d_mainpc # "orgmove" /\ d_interrupted) => d_mainpc' # "orgmove"]_vars

\* organize_tiles moved a file, and the flag was set before it moved them all
C33_Witness ==
    /\ d_mainpc = "orgdoneP"
    /\ d_interrupted
    /\ d_org # {}
    /\ \E t \in DTiles : d_history[t] # <<>> /\ get_organized_path(FileNameOf[t]) \in d_org
    /\ \E u \in DTiles : FileNameOf[u] \in d_flat

(***************************************************************************)
(* Properties of ImageScraper.fetch_file_page, checked under SpecW.        *)
(***************************************************************************)
WCalls == DOMAIN w_calls

\* the cache file of call i's URL as the call found it
CacheEntry(i) == w_calls[i].before[get_cache_path(w_calls[i].url)]

\* call i found force_refresh off and a cache file it could read
CacheHit(i) ==
    /\ ~w_calls[i].force
    /\ CacheEntry(i) # <<>>
    /\ CacheEntry(i)[1].readable

\* call i returned a page it fetched from the network
FetchedPage(i) == w_calls[i].content # <<>> /\ w_calls[i].requests # <<>>

\* call i returned (None, error_msg)
FetchFailed(i) == w_calls[i].content = <<>>

\* a cache hit returns the cached text with no request and no wait
CacheHitIsLocal ==
    \A i \in WCalls :
        CacheHit(i) =>
            /\ w_calls[i].content = <<CacheEntry(i)[1].text>>
            /\ w_calls[i].error = <<>>
            /\ w_calls[i].requests = <<>>
            /\ w_calls[i].waits = 0

\* a fetched page is in the cache when the call returns, and a later call
\* for the same URL without force_refresh makes no request
FetchedPageIsCached ==
    \A i \in WCalls :
        FetchedPage(i) =>
            /\ w_calls[i].after[get_cache_path(w_calls[i].url)]
                   = <<[text |-> w_calls[i].content[1], readable |-> TRUE]>>
            /\ \A j \in WCalls :
                   j > i /\ w_calls[j].url = w_calls[i].url /\ ~w_calls[j].force
                       => w_calls[j].requests = <<>>

\* a call that returns no page leaves the cache as it found it
FailedFetchStoresNothing ==
    \A i \in WCalls : FetchFailed(i) => w_calls[i].after = w_calls[i].before

\* the response arrived and writing it to the cache file failed
WriteFailed(i) ==
    /\ w_calls[i].requests # <<>>
    /\ w_calls[i].requests[Len(w_calls[i].requests)] = "200-WriteError"

\* C34: a readable cache entry is returned without request or wait when
\* force_refresh is off; a page fetched from the network is stored, so that
\* a following fetch of the URL without force_refresh makes no request; a
\* failed fetch stores nothing in the cache.
C34_Cache ==
    /\ CacheHitIsLocal
    /\ FetchedPageIsCached
    /\ FailedFetchStoresNothing

\* what the code keeps of C34: the cache is untouched by every failed fetch
\* except the one whose write to the cache file failed
C34_CacheButFailedWrite ==
    /\ CacheHitIsLocal
    /\ FetchedPageIsCached
    /\ \A i \in WCalls :
           FetchFailed(i) /\ ~WriteFailed(i) => w_calls[i].after = w_calls[i].before

\* a fetch failed on the write and the next one returned the truncated file
\* as the page
C34_PoisonedCache ==
    \E i, j \in WCalls :
        /\ j > i
        /\ FetchFailed(i)
        /\ WriteFailed(i)
        /\ w_calls[i].after # w_calls[i].before
        /\ w_calls[j].url = w_calls[i].url
        /\ w_calls[j].requests = <<>>
        /\ w_calls[j].content = <<"">>

\* a fetched page was served from the cache by the following call
C34_WitnessCached ==
    \E i, j \in WCalls :
        /\ j > i
        /\ FetchedPage(i)
        /\ w_calls[j].url = w_calls[i].url
        /\ CacheHit(j)
        /\ w_calls[j].content = w_calls[i].content

\* the requests of a call that got a 429 response
RateLimited(requests) == {k \in DOMAIN requests : requests[k] = "429"}

\* the call under way has made requests and every one of them was answered 429
OnlyRetriedOn429 ==
    w_pc \in {"entry", "wait", "request"} =>
        /\ \A k \in DOMAIN w_cur.requests : w_cur.requests[k] = "429"
        /\ Len(w_cur.requests) = w_retry_count
        /\ Len(w_cur.requests) <= 3

\* a returned call made at most 4 requests, all but the last answered 429,
\* slept 5, 10, 20 between them, and a last 429 is the fourth
BoundedRetry(i) ==
    LET requests == w_calls[i].requests
        n == Len(requests)
    IN  /\ n <= 4
        /\ \A k \in 1..(n - 1) : requests[k] = "429"
        /\ w_calls[i].sleeps = SubSeq(<<5, 10, 20>>, 1, n - 1)
        /\ (n > 0 /\ requests[n] = "429") =>
               /\ n = 4
               /\ w_calls[i].content = <<>>
               /\ w_calls[i].error = <<"Rate limited (429) - max retries exceeded">>
        /\ (n > 0 /\ requests[n] \in HttpErrors \ {"429"}) =>
               /\ w_calls[i].content = <<>>
               /\ w_calls[i].error = <<WErrorOf(requests[n])>>

\* stats["rate_limited"] goes up by one with every 429 response and with
\* nothing else; a new scraper starts it at 0
CountsEvery429 ==
    IF w_pc = "request"
    THEN w_rate_limited' = w_rate_limited
             + (IF w_cur'.requests[Len(w_cur'.requests)] = "429" THEN 1 ELSE 0)
    ELSE \/ w_rate_limited' = w_rate_limited
         \/ w_pc = "none" /\ w_pc' = "none" /\ w_rate_limited' = 0

\* C35: a 429 response is retried at most 3 times for one URL (at most 4
\* requests), after waits of 5, 10 and 20 seconds in that order; the fourth
\* 429 returns no content and the error "max retries exceeded"; rate_limited
\* is incremented once per 429 response; every other HTTP error returns at
\* once without retry.
C35_BoundedRetry ==
    /\ [](OnlyRetriedOn429 /\ \A i \in WCalls : BoundedRetry(i))
    /\ [][CountsEvery429]_vars

\* a call got four 429 responses and gave up
C35_Witness ==
    \E i \in WCalls :
        /\ w_calls[i].requests = <<"429", "429", "429", "429">>
        /\ w_calls[i].sleeps = <<5, 10, 20>>
        /\ w_calls[i].content = <<>>
        /\ w_rate_limited >= 4

\* a call got the page on its second retry
C35_WitnessRetried ==
    \E i \in WCalls :
        /\ w_calls[i].requests = <<"429", "429", "200">>
        /\ w_calls[i].content # <<>>

\* a call ended on a 404 after one retry
C35_WitnessOtherError ==
    \E i \in WCalls :
        /\ w_calls[i].requests = <<"429", "404">>
        /\ w_calls[i].error = <<"Page not found (404)">>

(***************************************************************************)
(* Properties of extract_items, checked under SpecE.                       *)
(***************************************************************************)
ECalls == DOMAIN e_calls

\* no two entries of the list have the same name
DistinctNames(items) ==
    \A k, l \in DOMAIN items : items[k].name = items[l].name => k = l

\* the list starts with the entries of prefix, in their order
StartsWith(items, prefix) ==
    /\ Len(items) >= Len(prefix)
    /\ SubSeq(items, 1, Len(prefix)) = prefix

\* the returned list starts with the items given, unchanged
KeepsCurrentItems ==
    \A i \in ECalls : StartsWith(e_calls[i].returned, e_calls[i].current_items)

\* C36: for a current_items list with pairwise distinct names and any page,
\* the list extract_items returns contains every entry of current_items
\* unchanged and in the same order, and no two entries with the same name.
C36_MergeNoDuplicates ==
    \A i \in ECalls :
        DistinctNames(e_calls[i].current_items) =>
            /\ StartsWith(e_calls[i].returned, e_calls[i].current_items)
            /\ DistinctNames(e_calls[i].returned)

\* what the code keeps of C36: the items given come first and unchanged, the
\* entries appended are those of the page whose name none of the items given
\* has, in page order, so the result has distinct names when the page has
C36_MergeAgainstCurrentOnly ==
    \A i \in ECalls :
        LET given == e_calls[i].current_items
            returned == e_calls[i].returned
            added == SubSeq(returned, Len(given) + 1, Len(returned))
        IN  /\ StartsWith(returned, given)
            /\ added = SelectSeq(e_calls[i].image_data,
                                 LAMBDA item : item.name \notin NamesOf(given))
            /\ (DistinctNames(given) /\ DistinctNames(e_calls[i].image_data))
                   => DistinctNames(returned)

\* a page that lists one name twice put it twice into a list that had
\* distinct names
C36_DuplicateFromPage ==
    \E i \in ECalls :
        /\ DistinctNames(e_calls[i].current_items)
        /\ e_calls[i].current_items # <<>>
        /\ ~DistinctNames(e_calls[i].image_data)
        /\ ~DistinctNames(e_calls[i].returned)

\* a page entry whose name was among the items given was left out and a new
\* one was appended
C36_WitnessMerged ==
    \E i \in ECalls :
        /\ DistinctNames(e_calls[i].current_items)
        /\ Len(e_calls[i].image_data) = 2
        /\ Len(e_calls[i].returned) = Len(e_calls[i].current_items) + 1
        /\ DistinctNames(e_calls[i].returned)
        /\ e_calls[i].current_items # <<>>

(***************************************************************************)
(* Properties of deduplicate_images, checked under SpecG.                  *)
(***************************************************************************)
GCalls == DOMAIN g_calls

\* the positions of a list that hold the first pair of their filename
FirstOccurrences(links) ==
    {k \in DOMAIN links : \A j \in 1..(k - 1) : links[j][1] # links[k][1]}

\* the pairs at the positions in keep among the first k, in list order
RECURSIVE SubList(_, _, _)
SubList(links, keep, k) ==
    IF k = 0 THEN <<>>
    ELSE IF k \in keep THEN Append(SubList(links, keep, k - 1), links[k])
    ELSE SubList(links, keep, k - 1)

KeepsFirstOccurrences(i) ==
    LET links == g_calls[i].file_page_links
    IN  g_calls[i].unique = SubList(links, FirstOccurrences(links), Len(links))

\* C37: deduplicate_images returns the sub-list of its input that keeps for
\* every filename exactly its first occurrence, in input order; applied to
\* its own output it returns that output unchanged.
C37_Deduplicate ==
    /\ \A i \in GCalls : KeepsFirstOccurrences(i)
    /\ \A i, j \in GCalls :
           g_calls[j].file_page_links = g_calls[i].unique
               => g_calls[j].unique = g_calls[i].unique

\* a later pair with the filename of an earlier one and another url was
\* dropped, and the call on the output returned it unchanged
C37_Witness ==
    /\ Len(g_calls) = 2
    /\ g_calls[1].file_page_links
           = <<<<"A.png", "File:A">>, <<"B.png", "File:A">>, <<"A.png", "File:B">>>>
    /\ g_calls[1].unique = <<<<"A.png", "File:A">>, <<"B.png", "File:A">>>>
    /\ g_calls[2].file_page_links = g_calls[1].unique
    /\ g_calls[2].unique = g_calls[1].unique

(***************************************************************************)
(* Properties of the tile grid, checked under SpecZ.                       *)
(***************************************************************************)
\* get_dimensions raised exactly for the zoom levels below 3 and returned
\* 5 * 2^(zoom - 3) for the others
DimensionsRule ==
    /\ z_pc = "raised" => z_zoom < 3
    /\ z_pc \in {"loop", "returned"} =>
           /\ z_zoom >= 3
           /\ z_dimensions = 5 * 2 ^ (z_zoom - 3)

\* the entries of tiles made for column x and row y
EntriesFor(x, y) ==
    {k \in DOMAIN z_tiles :
        /\ z_tiles[k].url = TileUrl(z_zoom, x, y)
        /\ z_tiles[k].filename = TileFileName(z_zoom, x, y)}

\* the list returned has dimensions^2 entries, one for each (x, y), with
\* pairwise distinct file names
GridRule ==
    z_pc = "returned" =>
        /\ Len(z_tiles) = z_dimensions * z_dimensions
        /\ \A x, y \in 0..(z_dimensions - 1) : Cardinality(EntriesFor(x, y)) = 1
        /\ \A k, l \in DOMAIN z_tiles :
               z_tiles[k].filename = z_tiles[l].filename => k = l
        /\ z_zoom = MinZoom => z_tiles = all_tiles

\* C38: get_dimensions(zoom) is 5 * 2^(zoom - 3) for zoom >= 3 and an error
\* for zoom < 3; get_tile_urls(zoom) returns get_dimensions(zoom)^2 entries,
\* one for each (x, y) with 0 <= x, y < dimension, with pairwise distinct
\* file names.
C38_TileGrid == DimensionsRule /\ GridRule

\* the 10 x 10 grid of zoom level 4 was returned
C38_Witness ==
    /\ z_pc = "returned"
    /\ z_zoom = 4
    /\ Len(z_tiles) = 100
    /\ z_tiles[100].filename = <<"4", "_", "9", "_", "9", ".", "p", "n", "g">>

\* zoom level 2 was refused
C38_WitnessRaised == z_pc = "raised" /\ z_zoom = 2 /\ z_tiles = <<>>

(***************************************************************************)
(* Properties of UnionFind, checked under SpecU.                           *)
(***************************************************************************)
\* the element k parent links above x
RECURSIVE Climb(_, _, _)
Climb(parent, x, k) == IF k = 0 THEN x ELSE Climb(parent, parent[x], k - 1)

\* where the parent links lead from x, if they lead to a root at all
RootOf(parent, x) == Climb(parent, x, Cardinality(DOMAIN parent))

\* following parent links from any element reaches a root and never cycles
Forest ==
    /\ \A x \in UElems : u_parent[x] \in UElems
    /\ \A x \in UElems : u_parent[RootOf(u_parent, x)] = RootOf(u_parent, x)

\* the elements joined to those of S by the unions performed so far
RECURSIVE Component(_)
Component(S) ==
    LET next == S \cup {y \in UElems : \E x \in S : {x, y} \in u_unions}
    IN  IF next = S THEN S ELSE Component(next)

Connected(x, y) == y \in Component({x})

\* find(x) == find(y) exactly for the connected x and y
FindAgrees ==
    \A x, y \in UElems :
        LET first == find(u_parent, x)
            second == find(first.parent, y)
        IN  (first.returned = second.returned) <=> Connected(x, y)

\* a find returns the root its argument was under and is under afterwards
FindReturnsRoot ==
    u_found' # u_found =>
        /\ u_found'[2] = RootOf(u_parent, u_found'[1])
        /\ u_found'[2] = RootOf(u_parent', u_found'[1])

\* a step that performs no new union leaves every element under its root
KeepsConnectivity ==
    u_unions' = u_unions =>
        \A x \in UElems : RootOf(u_parent', x) = RootOf(u_parent, x)

\* C39: after any sequence of union and find calls the parent array is a
\* forest; find(x) == find(y) holds exactly when x and y are connected by
\* the unions performed so far; find changes no connectivity.
C39_UnionFind ==
    /\ [](Forest /\ FindAgrees)
    /\ [][FindReturnsRoot /\ KeepsConnectivity]_vars

\* two trees of rank 1 were joined and a find flattened the result: every
\* element hangs directly under the root of rank 2 the find returned
C39_Witness ==
    /\ u_pc = "ready"
    /\ u_found # <<>>
    /\ u_found[1] # u_found[2]
    /\ u_rank[u_found[2]] = 2
    /\ \A x \in UElems : u_parent[x] = u_found[2]
    /\ \A x, y \in UElems : Connected(x, y)

\* two elements were joined and a third was left apart
C39_WitnessApart ==
    \E x, y, z \in UElems :
        /\ x # y
        /\ Connected(x, y)
        /\ ~Connected(x, z)
        /\ find(u_parent, x).returned = find(u_parent, y).returned
        /\ find(u_parent, x).returned # find(u_parent, z).returned

\* a tree two links deep, before any find compresses it
C39_WitnessDeep ==
    \E x \in UElems : u_parent[x] # x /\ u_parent[u_parent[x]] # u_parent[x]

====
